---- MODULE Spec2Model ----
(***************************************************************************)
(* A model of git_component (src/src/git_component.py): one invocation of  *)
(* GitComponent.run() against a state-store directory, a git working tree  *)
(* and a package store.  A run is one action; the filesystem effects it    *)
(* performs are kept in order, so that a run interrupted by a kill can be  *)
(* cut after any of them.  The changelog generator                         *)
(* (src/src/gen_simple_changelog.py) is modelled the same way, a run being *)
(* one action on the changelog file of the manifest's directory.           *)
(***************************************************************************)
EXTENDS Integers, Sequences, FiniteSets, TLC

\* ------------------------------------------------------------------ bounds
MaxPathLen == 2      \* components of a manifest path
MaxLocs == 1         \* entries of the manifest's locations list
MaxScripts == 2      \* scripts of one hook-script list
MaxExit == 2         \* hook scripts exit with a code in 0..MaxExit
MaxCommits == 2      \* commits touching the component's paths
MaxClock == 3        \* saves of the state store (the clock ticks on a save)
MaxRecords == 2      \* records of a commit log put to parse_commits
MaxOnlyFiles == 1    \* entries of git_only_files put to the path resolver
MaxActions == 1      \* package action scripts put to the path resolver
MaxFiles == 2        \* paths of a list put to the version computation
MaxLogLen == 2       \* commits of a history put to the version computation
MaxHashLimit == 3    \* --limit of a version computation
MaxPushed == 2       \* commits pushed to the remotes of the changelog generator
MaxGenLocs == 2      \* entries of the locations list of the changelog generator
MaxGenRuns == 2      \* runs of the changelog generator

VARIABLES
    store_dir,      \* the state-store directory exists
    store,          \* the content of <store_dir>/<slug>.yml
    store_changelog,\* the content of <store_dir>/<slug>_changelog.yml
    commits,        \* commits touching the component since the last tag
    now,            \* the wall clock read by datetime.utcnow()
    packages,       \* versions whose package directory exists in the package store
    pack_store,     \* the package-store directory exists
    first_written,  \* history: first_version of the first record ever persisted
    interrupted,    \* history: some save of the store was cut by a kill
    last,           \* the last invocation: its arguments, manifest and outcome
    call,           \* a computation asked of one function, and what it returned
    pushed,         \* the commits of the remotes the changelog generator looks at
    changelog_file, \* <cwd>/<slug>_changelog.yml of gen_simple_changelog
    gen             \* the last run of gen_simple_changelog

vars == <<store_dir, store, store_changelog, commits, now, packages, pack_store, first_written, interrupted,
          last, call, pushed, changelog_file, gen>>

\* what a run of gen_simple_changelog reads and writes, the clock apart
gen_vars == <<pushed, changelog_file, gen>>

\* what an invocation of git_component reads and writes
run_vars == <<store_dir, store, store_changelog, commits, now, packages, pack_store,
              first_written, interrupted, last>>

Range(s) == {s[i] : i \in DOMAIN s}

\* ------------------------------------------------------------------- paths
\* A path string is [abs, parts]: os.path.isabs and the "/"-separated parts.
PathComponents == {"a", ".."}

RelPath(parts) == [abs |-> FALSE, parts |-> parts]

AbsPath(parts) == [abs |-> TRUE, parts |-> parts]

\* self.abs_location_root: the manifest's directory
abs_location_root == AbsPath(<<"srv", "repo">>)

\* os.path.join(a, b): an absolute b discards a
join(a, b) == IF b.abs THEN b ELSE [abs |-> a.abs, parts |-> a.parts \o b.parts]

RECURSIVE normparts(_, _, _)
normparts(abs, acc, rest) ==
    IF rest = <<>> THEN acc
    ELSE LET c == Head(rest) IN
         normparts(abs,
                   IF c = "." THEN acc
                   ELSE IF c = ".."
                        THEN IF acc # <<>> /\ acc[Len(acc)] # ".."
                             THEN SubSeq(acc, 1, Len(acc) - 1)
                             ELSE IF abs THEN acc ELSE Append(acc, c)
                        ELSE Append(acc, c),
                   Tail(rest))

\* os.path.abspath of a path that is absolute already: normpath
abspath(p) == AbsPath(normparts(TRUE, <<>>, p.parts))

Min(a, b) == IF a < b THEN a ELSE b

\* the length of os.path.commonprefix of two part lists
commonprefix(p, s) ==
    CHOOSE k \in 0..Min(Len(p), Len(s)) :
        /\ \A i \in 1..k : p[i] = s[i]
        /\ k = Min(Len(p), Len(s)) \/ p[k + 1] # s[k + 1]

\* posixpath.relpath: [pardir] * (len(start_list) - i) + path_list[i:]
rel_list(p, s, i) == [j \in 1..(Len(s) - i) |-> ".."] \o SubSeq(p, i + 1, Len(p))

\* posixpath.relpath: an empty list is curdir
curdir_if_empty(rel) == IF rel = <<>> THEN <<".">> ELSE rel

relparts(p, s) == curdir_if_empty(rel_list(p, s, commonprefix(p, s)))

\* os.path.relpath(path, start), both absolute: the parts of the result
relpath(path, start) == relparts(abspath(path).parts, abspath(start).parts)

\* "/".join(rel).startswith("../")
startswith_parent(rel) == Len(rel) >= 2 /\ rel[1] = ".."

IsPrefix(d, q) == Len(q) >= Len(d) /\ SubSeq(q, 1, Len(d)) = d

\* the directories and files of the machine: the root, its ancestors and one
\* entry "a" in the root
exists(p) ==
    \/ IsPrefix(abspath(p).parts, abs_location_root.parts)
    \/ abspath(p).parts = Append(abs_location_root.parts, "a")

\* p is dir itself or lies below it
IsUnder(p, dir) == IsPrefix(abspath(dir).parts, abspath(p).parts)

RECURSIVE dedup_paths(_, _)
\* a first loop without `if fpath not in build_commit_hash_file_list`
dedup_path_keep_all(files, acc, fpath) ==
    IF startswith_parent(fpath)
    THEN [ok |-> FALSE, paths |-> <<>>]
    ELSE dedup_paths(Tail(files), Append(acc, fpath))

\* GitComponent.__get_paths_to_git_check: one entry of the first loop
dedup_path(files, acc, fpath) ==
    IF startswith_parent(fpath)
    THEN [ok |-> FALSE, paths |-> <<>>]           \* raise Exception("outside root location")
    ELSE dedup_paths(Tail(files), IF fpath \in Range(acc) THEN acc ELSE Append(acc, fpath))

\* GitComponent.__get_paths_to_git_check: the first loop
dedup_paths(files, acc) ==
    IF files = <<>> THEN [ok |-> TRUE, paths |-> acc]
    ELSE dedup_path(files, acc,
                    relpath(join(abs_location_root, Head(files)), abs_location_root))

\* GitComponent.__get_paths_to_git_check: the second loop
check_paths_exist(r) ==
    IF r.ok /\ \E i \in DOMAIN r.paths :
                   ~exists(join(abs_location_root, RelPath(r.paths[i])))
    THEN [ok |-> FALSE, paths |-> <<>>]           \* raise Exception("File does not exist")
    ELSE r

\* GitComponent.__get_paths_to_git_check: ok = FALSE when it raises
get_paths_to_git_check(all_git_files_to_look) ==
    check_paths_exist(dedup_paths(all_git_files_to_look, <<>>))

\* ------------------------------------------------------------- git history
\* A string is the sequence of its characters.  A working tree is
\* [tags, log, broken]: the tags that `git tag --list <filter> --merged` prints,
\* each with the number of commits made since it, the commits of HEAD, the
\* newest first, each with its hash and the files it touches, and whether git
\* exits non-zero there (the root is in no repository).
NoVersion == <<>>                     \* final_hash = None

NoTag == [name |-> <<>>, since |-> 0]                \* get_last_tag returns None

Digits == <<"0", "1", "2", "3", "4", "5", "6", "7", "8", "9">>

RECURSIVE str_int(_)
\* str(n) of a natural number
str_int(n) ==
    IF n < 10 THEN <<Digits[n + 1]>> ELSE Append(str_int(n \div 10), Digits[(n % 10) + 1])

\* the hash of the k-th commit of a history
CommitHash(k) == <<"c">> \o str_int(k) \o <<"e">>

Commit(k, files) == [hash |-> CommitHash(k), files |-> files]

\* args.limit: --limit, default=65
DefaultLimit == 65

\* utils.get_last_tag, tags being what git tag printed: tags[-1], None when
\* there is none
last_of(tags) == IF tags # <<>> THEN tags[Len(tags)] ELSE NoTag

\* utils.get_last_tag: a CalledProcessError leaves the list of tags empty
get_last_tag(tree) == last_of(IF tree.broken THEN <<>> ELSE tree.tags)

\* a pathspec of git log, relative to the root: the commit touches a file that
\* is the path or lies below it
touches(commit, files) ==
    \E i \in DOMAIN files : \E f \in commit.files :
        IsPrefix(abspath(join(abs_location_root, RelPath(files[i]))).parts, f)

\* git log --format=%H [<tag>..HEAD] -- <files>: the commits printed
git_log(tree, tag, files) ==
    SelectSeq(IF tag.name # <<>> THEN SubSeq(tree.log, 1, tag.since) ELSE tree.log,
              LAMBDA c : touches(c, files))

\* utils.compose_build_commit_hash, lines 48-53: a CalledProcessError is passed
\* over and leaves commits_hashes empty
commits_hashes_of(tree, tag, files) ==
    IF tree.broken THEN <<>> ELSE git_log(tree, tag, files)

\* a suffix made of the oldest commit printed instead of the newest
build_commit_hash_of_oldest(commits_hashes, hash_limit) ==
    IF Len(commits_hashes) > 0
    THEN <<"-">> \o str_int(Len(commits_hashes)) \o <<"-">>
             \o SubSeq(commits_hashes[Len(commits_hashes)].hash, 1,
                       Min(hash_limit, Len(commits_hashes[Len(commits_hashes)].hash)))
    ELSE <<>>

\* utils.compose_build_commit_hash, commits_hashes being what git log printed
build_commit_hash_of(commits_hashes, hash_limit) ==
    IF Len(commits_hashes) > 0
    THEN <<"-">> \o str_int(Len(commits_hashes)) \o <<"-">>
             \o SubSeq(commits_hashes[1].hash, 1,
                       Min(hash_limit, Len(commits_hashes[1].hash)))
    ELSE <<>>

\* a query that names the first file only
compose_build_commit_hash_first_file(tree, tag, files, hash_limit) ==
    build_commit_hash_of(commits_hashes_of(tree, tag, SubSeq(files, 1, 1)), hash_limit)

\* utils.compose_build_commit_hash
compose_build_commit_hash(tree, tag, files, hash_limit) ==
    build_commit_hash_of(commits_hashes_of(tree, tag, files), hash_limit)

\* f"{last_tag or '0.0.1'}{build_commit_hash}"
version_string(last_tag, build_commit_hash) ==
    (IF last_tag.name # <<>> THEN last_tag.name ELSE <<"0", ".", "0", ".", "1">>)
        \o build_commit_hash

\* the manifest's locations, git_only_files and package-actions, in this order
all_git_files_to_look(m) == m.locations \o m.git_only_files \o m.package_actions

\* GitComponent.__get_git_version, r being what the path resolver returns:
\* ok = FALSE when it raises
git_version(r, tree, hash_limit) ==
    [ok |-> r.ok, paths |-> r.paths,
     version |-> IF r.ok
                 THEN version_string(get_last_tag(tree),
                                     compose_build_commit_hash(
                                         tree, get_last_tag(tree), r.paths, hash_limit))
                 ELSE NoVersion]

\* GitComponent.__get_git_version in the working tree
get_git_version_in(tree, m, hash_limit) ==
    git_version(get_paths_to_git_check(all_git_files_to_look(m)), tree, hash_limit)

\* the count of commits that stands for a working tree in which git fails: the
\* directory is not, or no longer, a clone
NoRepository == -1

\* the working tree of the install, test and pack runs: no tag, and commits
\* commits that touch the entry a of the root
tree_of(n) ==
    [tags |-> <<>>, broken |-> n = NoRepository,
     log |-> [i \in 1..n |-> Commit(n + 1 - i, {Append(abs_location_root.parts, "a")})]]

working_tree == tree_of(commits)

get_git_version(m) == get_git_version_in(working_tree, m, DefaultLimit)

\* ------------------------------------------------- the clones on the machine
\* The machine holds two clones: the one of remote "r1" at the root, with a file
\* f and a directory d, and the one of remote "r2" at /srv/w.

\* os.path.dirname
dirname(p) == [abs |-> p.abs, parts |-> SubSeq(p.parts, 1, Len(p.parts) - 1)]

\* the location "."
Dot == RelPath(<<".">>)

GenFile == RelPath(<<"f">>)

GenDir == RelPath(<<"d">>)

OtherClone == AbsPath(<<"srv", "w">>)

GenLocations == {Dot, GenFile, GenDir, OtherClone}

\* the files a commit can touch: f and d/x of r1, /srv/w/x of r2
RepoFiles ==
    [r1 |-> {Append(abs_location_root.parts, "f"), abs_location_root.parts \o <<"d", "x">>},
     r2 |-> {Append(OtherClone.parts, "x")}]

Remotes == DOMAIN RepoFiles

\* a commit pushed to a remote; the k-th commit made has the hash CommitHash(k)
RepoCommit(k, repo, files) == [hash |-> CommitHash(k), repo |-> repo, files |-> files]

\* None, or the empty output of a command
NoRef == <<>>

\* os.path.isfile
isfile(p) == abspath(p).parts = Append(abs_location_root.parts, "f")

\* repo_cwd: the directory the git commands of a location run in
repo_cwd_of(loc) == IF isfile(loc) THEN dirname(loc) ELSE loc

\* `git ls-remote --get-url` in a directory
ls_remote(cwd) ==
    IF IsPrefix(OtherClone.parts, abspath(cwd).parts) THEN "r2" ELSE "r1"

remote_of(loc) == ls_remote(repo_cwd_of(join(abs_location_root, loc)))

\* the commits of the clone a directory lies in, the newest first
head_log(log, cwd) == SelectSeq(log, LAMBDA c : c.repo = ls_remote(cwd))

\* <ref>..HEAD: the commits made after ref
RECURSIVE newer_than(_, _)
newer_than(log, ref) ==
    IF log = <<>> \/ Head(log).hash = ref THEN <<>>
    ELSE <<Head(log)>> \o newer_than(Tail(log), ref)

\* a commit touches a pathspec, which git resolves against the directory it
\* runs in
under_pathspec(c, cwd, pathspec) ==
    \E f \in c.files : IsPrefix(abspath(join(cwd, pathspec)).parts, f)

\* the first line of an output, empty if there is none
first_hash(log) == IF log = <<>> THEN NoRef ELSE Head(log).hash

\* git knows the reference: it names a commit of the clone
known_ref(log, cwd, ref) == \E i \in DOMAIN log : log[i].repo = ls_remote(cwd) /\ log[i].hash = ref

\* the revision range of the command
log_range(log, used_ref) == IF used_ref # NoRef THEN newer_than(log, used_ref) ELSE log

\* ------------------------------------------------------------- state store
NoInfo == [none |-> TRUE]             \* Python's None

NoEntry == [hash |-> NoVersion]

NoFile == [kind |-> "nofile", info |-> NoInfo]

EmptyFile == [kind |-> "empty", info |-> NoInfo]     \* opened "w+", nothing written yet

RecordFile(info) == [kind |-> "record", info |-> info]

\* self.real_cfg_file
real_cfg_file == "/srv/repo/.git_component.yml"

\* round(inst_time.timestamp(), 3): seconds, with the milliseconds kept
timestamp(t) == t * 1000

EmptyDict == [k \in {} |-> 0]

dict_get(d, k, default) == IF k \in DOMAIN d THEN d[k] ELSE default

\* the innermost level of the merge, inside a repos snapshot: no value of u is
\* a dict, each is assigned
dict_update(d, u) ==
    [k \in DOMAIN d \cup DOMAIN u |-> IF k \in DOMAIN u THEN u[k] ELSE d[k]]

\* an inner level that keeps nothing of d
dict_replace_leaves(d, u) == u

\* the inner level of the merge, inside a version: the repos snapshot is the
\* one value of u that is a dict
dict_update_leaves(d, u) ==
    [k \in DOMAIN d \cup DOMAIN u |->
        IF k \notin DOMAIN u THEN d[k]
        ELSE IF k = "repos" THEN dict_update(dict_get(d, k, EmptyDict), u[k])
        ELSE u[k]]

\* a merge that keeps nothing of d: the new data replaces the record
dict_overwrite(d, u) == u

\* GitComponent._recursive_dict_update(d, u) on a version record: every value of
\* u is a dict of scalars
recursive_dict_update(d, u) ==
    [k \in DOMAIN d \cup DOMAIN u |->
        IF k \in DOMAIN u
        THEN dict_update_leaves(dict_get(d, k, EmptyDict), u[k])
        ELSE d[k]]

\* a save whose previous_version is taken from the new data instead of the old
\* record
save_without_previous(final_hash, location, inst_duration, update, old_info, t) ==
    LET current_version == [hash |-> final_hash,
                            utctime |-> t,
                            utcepoch |-> t * 1000,
                            location |-> location,
                            duration |-> inst_duration]
        info == IF update
                THEN [current_version |-> current_version,
                      previous_version |-> current_version]
                ELSE [current_version |-> current_version,
                      first_version |-> current_version]
    IN IF old_info # NoInfo
       THEN [k \in DOMAIN old_info \cup DOMAIN info |->
                IF k \in DOMAIN info THEN info[k] ELSE old_info[k]]
       ELSE info

\* GitComponent._save_installation_info: the dict it dumps and returns
save_installation_info(final_hash, location, inst_duration, update, old_info, t) ==
    LET current_version == [hash |-> final_hash,
                            utctime |-> t,
                            utcepoch |-> timestamp(t),
                            location |-> location,
                            duration |-> inst_duration]
        info == IF update
                THEN [current_version |-> current_version,
                      previous_version |-> old_info.current_version]
                ELSE [current_version |-> current_version,
                      first_version |-> current_version]
    IN IF old_info # NoInfo THEN recursive_dict_update(old_info, info) ELSE info

\* GitComponent._load_installation_info: a missing file and an empty file load
\* as None
load_installation_info(file) == IF file.kind = "record" THEN file.info ELSE NoInfo

\* ------------------------------------------------------------ hook scripts
\* A hook-script list is the list of the exit codes its scripts end with.
ExitCodes == 0..MaxExit

ScriptLists == UNION {[1..n -> ExitCodes] : n \in 0..MaxScripts}

RECURSIVE run_scripts_from(_, _)
\* a loop without the break: every script is started, the code of the last one
\* that failed is returned
run_scripts_no_break(scripts, i) ==
    [res |-> IF \E k \in DOMAIN scripts : scripts[k] # 0
             THEN scripts[CHOOSE k \in DOMAIN scripts :
                              scripts[k] # 0 /\ \A j \in DOMAIN scripts : scripts[j] # 0 => j <= k]
             ELSE 0,
     ran |-> Len(scripts)]

\* GitComponent._run_scripts: the loop from the i-th script on
run_scripts_from(scripts, i) ==
    IF i > Len(scripts) THEN [res |-> 0, ran |-> Len(scripts)]
    ELSE IF scripts[i] # 0 THEN [res |-> scripts[i], ran |-> i]
    ELSE run_scripts_from(scripts, i + 1)

\* GitComponent._run_scripts: the result code, the number of scripts started and
\* the elapsed time (every script takes one unit)
run_scripts(scripts) ==
    LET r == run_scripts_from(scripts, 1) IN
    [res |-> r.res, ran |-> r.ran, duration |-> r.ran]

\* ---------------------------------------------------------- one invocation
\* The command lines: -i, -u, -C, -F and the sub command with its flags.
Args(i, u, c, f, cmd, ut, it, et) ==
    [install_check |-> i, update_check |-> u, changelog |-> c,
     check_changes_from_commit |-> f, cmd |-> cmd,
     unittest_check |-> ut, integration_check |-> it, e2e_check |-> et]

ArgsPlain ==
    {Args(i, u, c, f, "none", FALSE, FALSE, FALSE) : i, u, c, f \in BOOLEAN}

ArgsTests ==
    {Args(FALSE, FALSE, FALSE, FALSE, "run_tests", ut, it, et) : ut, it, et \in BOOLEAN}

ArgsPack ==
    {Args(FALSE, FALSE, FALSE, FALSE, "pack", FALSE, FALSE, FALSE)}

\* The paths a manifest may name: relative ones of up to MaxPathLen components
\* and two absolute ones
ManifestPaths ==
    {RelPath(s) : s \in UNION {[1..n -> PathComponents] : n \in 1..MaxPathLen}}
        \cup {AbsPath(<<"srv", "repo", "a">>), AbsPath(<<"etc">>)}

LocationLists == UNION {[1..n -> ManifestPaths] : n \in 1..MaxLocs}

ComponentLocations ==
    {<<RelPath(<<"a">>)>>, <<RelPath(<<"..">>)>>, <<RelPath(<<"..", "a">>)>>}

NoDst == RelPath(<<>>)               \* a plain string entry: no dst

\* What a filesystem mutation or a hook script leaves in the run's log
Event(op, kind, idx, rc, path) ==
    [op |-> op, kind |-> kind, idx |-> idx, rc |-> rc, path |-> path]

\* go on with the filesystem fs after the event ev
Emit(ctx, ev, fs) ==
    [ctx EXCEPT !.fs = fs, !.fx = Append(@, ev), !.snaps = Append(@, fs)]

RECURSIVE EmitScripts(_, _, _, _)
EmitScripts(ctx, kind, scripts, ran) ==
    IF ran = 0 THEN ctx
    ELSE Emit(EmitScripts(ctx, kind, scripts, ran - 1),
              Event("script", kind, ran, scripts[ran], <<>>), ctx.fs)

NoteHook(ctx, kind, scripts, r) ==
    [ctx EXCEPT !.hooks = Append(@, [kind |-> kind, scripts |-> scripts,
                                     res |-> r.res, ran |-> r.ran])]

\* the scripts of one list as _run_scripts ran them, and the list in the log
RunHook(ctx, kind, scripts) ==
    NoteHook(EmitScripts(ctx, kind, scripts, run_scripts(scripts).ran),
             kind, scripts, run_scripts(scripts))

\* a hook-script list that is empty or missing: "Nothing to run"
NoteEmpty(ctx, kind) == NoteHook(ctx, kind, <<>>, [res |-> 0, ran |-> 0])

LastHook(ctx) == ctx.hooks[Len(ctx.hooks)]

\* git_component.py:262: open(cmp_file_path, "w+") truncates the file
open_store(ctx) ==
    Emit(ctx, Event("open_w", "store", 0, 0, <<>>), [ctx.fs EXCEPT !.store = EmptyFile])

\* git_component.py:263: yaml.safe_dump fills the file; a record is smaller than
\* the stream's buffer, so it reaches the file when the with block closes it
dump_store(ctx, info) ==
    [Emit(ctx, Event("dump", "store", 0, 0, <<>>),
          [ctx.fs EXCEPT !.store = RecordFile(info)])
     EXCEPT !.info = info]

EmitSave(ctx, info) == dump_store(open_store(ctx), info)

ExitWith(code) == [kind |-> "exit", code |-> code]

\* an uncaught exception: the traceback, and exit status 1
Raised == [kind |-> "exception", code |-> 1]

Killed == [kind |-> "killed", code |-> 137]

RetNone == -1                        \* Python's None as a return value

\* sys.exit(value): None is exit status 0
sys_exit(value) == IF value = RetNone THEN 0 ELSE value

\* the invocation is over with result: nothing after this point is executed
Stop(ctx, result) == [ctx EXCEPT !.done = TRUE, !.result = result]

\* git_component.py:693: run() calls process_cmds() and drops what it returns,
\* so run() itself returns None
run_return(cmd_ret) == RetNone

\* git_component.py:697: sys.exit(GitComponent(args_parse()).run())
EndRun(ctx) ==
    IF ctx.done THEN ctx ELSE Stop(ctx, ExitWith(sys_exit(run_return(ctx.cmd_ret))))

\* process_cmds returns value to run()
Return(ctx, value) == [ctx EXCEPT !.returned = TRUE, !.cmd_ret = value]

Over(ctx) == ctx.done \/ ctx.returned

\* git_component.py:403-406
tests_result(ctx) ==
    IF LastHook(ctx).res # 0 THEN Return(ctx, LastHook(ctx).res) ELSE ctx

\* process_cmds, cmd == "run_tests": one tests_type of the loop, its list of
\* scripts being inst_scripts
tests_of_type(ctx, kind, inst_scripts) ==
    IF inst_scripts = <<>> THEN NoteEmpty(ctx, kind)
    ELSE tests_result(RunHook(ctx, kind, inst_scripts))

\* the outcomes of one tests_type over the lists the manifest may hold
TestsOfType(ctx, flag, kind) ==
    IF Over(ctx) \/ ctx.args.cmd # "run_tests" \/ ~flag THEN {ctx}
    ELSE {tests_of_type(ctx, kind, inst_scripts) : inst_scripts \in ScriptLists}

\* os.path.join(store_dir, package_label)
package_dir == AbsPath(<<"pkgstore", "cmp">>)

\* os.path.join(package_dir, "src")
src_dir == join(package_dir, RelPath(<<"src">>))

\* git_component.py:494-498: os.makedirs(os.path.dirname(dst)), then the copy
copy_file(ctx, i, dst) ==
    Emit(Emit(ctx, Event("makedirs", "dirname_dst", i, 0, abspath(dirname(dst)).parts),
              ctx.fs),
         Event("copy", "location", i, 0, abspath(dst).parts), ctx.fs)

RECURSIVE copy_locations(_, _, _, _)
\* git_component.py:490-498
copy_to(ctx, srcs, dsts, i, dst) ==
    IF startswith_parent(relpath(dst, package_dir))
    THEN Stop(ctx, Raised)                 \* raise Exception("DST=... is outside package_dir")
    ELSE copy_locations(copy_file(ctx, i, dst), srcs, dsts, i + 1)

\* git_component.py:483-488
copy_from(ctx, srcs, dsts, i, src_rel_to_root) ==
    IF startswith_parent(src_rel_to_root)
    THEN Stop(ctx, Raised)                 \* raise Exception("... is outside location_root")
    ELSE copy_to(ctx, srcs, dsts, i,
                 IF dsts[i] = NoDst
                 THEN join(src_dir, RelPath(src_rel_to_root))
                 ELSE join(src_dir, dsts[i]))

\* process_cmds, cmd == "pack": the loop over copy_locations from entry i on;
\* an entry that raises stops the invocation
copy_locations(ctx, srcs, dsts, i) ==
    IF i > Len(srcs) THEN ctx
    ELSE copy_from(ctx, srcs, dsts, i,
                   relpath(abspath(join(abs_location_root, srcs[i])), abs_location_root))

\* git_component.py:426-427
pack_store_dir(ctx) ==
    IF ~ctx.fs.pack_store
    THEN Emit(ctx, Event("makedirs", "package_store", 0, 0, <<"pkgstore">>),
              [ctx.fs EXCEPT !.pack_store = TRUE])
    ELSE ctx

\* git_component.py:429-453: the version, and the package that exists already
pack_version(ctx, v) ==
    IF ~v.ok THEN Stop(ctx, Raised)
    ELSE IF v.version \in ctx.fs.packages
    THEN Return([ctx EXCEPT !.final_hash = v.version, !.paths = v.paths], 0)
    ELSE [ctx EXCEPT !.final_hash = v.version, !.paths = v.paths]

\* git_component.py:456-462: what the package scripts return is not looked at
pack_scripts(ctx, package_scripts) ==
    IF Over(ctx) THEN ctx
    ELSE IF package_scripts = <<>> THEN NoteEmpty(ctx, "package")
    ELSE RunHook(ctx, "package", package_scripts)

\* git_component.py:464
make_package_dir(ctx) ==
    Emit(ctx, Event("makedirs", "package_dir", 0, 0, package_dir.parts),
         [ctx.fs EXCEPT !.packages = @ \cup {ctx.final_hash}])

\* git_component.py:470
make_src_dir(ctx) == Emit(ctx, Event("makedirs", "src_dir", 0, 0, src_dir.parts), ctx.fs)

pack_dirs(ctx) == IF Over(ctx) THEN ctx ELSE make_src_dir(make_package_dir(ctx))

\* git_component.py:472-498
pack_copy(ctx, dsts) ==
    IF Over(ctx) THEN ctx
    ELSE copy_locations([ctx EXCEPT !.m.dsts = dsts], ctx.m.locations, dsts, 1)

\* git_component.py:500-503
make_actions_dir(ctx) ==
    Emit(ctx, Event("makedirs", "actions", 0, 0, Append(package_dir.parts, "actions")),
         ctx.fs)

\* utils.write_cfg_file: the file is written as <file>.tmp and renamed
write_cfg_file(ctx, kind, path) ==
    Emit(Emit(ctx, Event("write_tmp", kind, 0, 0, Append(path, kind \o ".tmp")), ctx.fs),
         Event("rename", kind, 0, 0, Append(path, kind)), ctx.fs)

\* git_component.py:500-519
pack_info(ctx) ==
    IF Over(ctx) THEN ctx
    ELSE Return(write_cfg_file(make_actions_dir(ctx), "info.json", src_dir.parts), 0)

\* process_cmds, cmd == "pack", without an archive type (the package stays a
\* directory): package is the manifest's "package" key, package_scripts its
\* "package-scripts" and dsts the dst of each of its locations
pack(ctx, package, package_scripts, dsts) ==
    IF ~package THEN Return(ctx, RetNone)
    ELSE pack_info(
           pack_copy(
             pack_dirs(
               pack_scripts(pack_version(pack_store_dir(ctx), get_git_version(ctx.m)),
                            package_scripts)),
             dsts))

\* the outcomes of pack over the manifests
Pack(ctx) ==
    IF ctx.done \/ ctx.args.cmd # "pack" THEN {ctx}
    ELSE {pack(ctx, package, package_scripts, dsts) :
            package \in BOOLEAN,
            package_scripts \in ScriptLists,
            dsts \in [1..Len(ctx.m.locations) -> ManifestPaths \cup {NoDst}]}

\* changelog, unique_commit_hash and used_references before the loop
NoChanges ==
    [ok |-> TRUE, changelog |-> EmptyDict, unique_commit_hash |-> <<>>,
     used_references |-> EmptyDict]

append_commit(changelog, repo, commit) ==
    IF repo \in DOMAIN changelog
    THEN [changelog EXCEPT ![repo] = Append(@, [hash |-> commit.hash])]
    ELSE changelog @@ (repo :> <<[hash |-> commit.hash]>>)

\* the variant of the inner loop that adds every commit
add_every_commit(st, repo, commit) ==
    [st EXCEPT !.unique_commit_hash = Append(@, commit.hash),
               !.changelog = append_commit(@, repo, commit)]

\* the body of the inner loop: a hash seen already is skipped
add_commit(st, repo, commit) ==
    IF commit.hash \in Range(st.unique_commit_hash) THEN st
    ELSE [st EXCEPT !.unique_commit_hash = Append(@, commit.hash),
                    !.changelog = append_commit(@, repo, commit)]

RECURSIVE add_commits(_, _, _)
add_commits(st, repo, parsed) ==
    IF parsed = <<>> THEN st
    ELSE add_commits(add_commit(st, repo, Head(parsed)), repo, Tail(parsed))

\* git_component.py:640: info.get('first_version', dict()).get('hash') == final_hash
is_first_install(info, final_hash) ==
    "first_version" \in DOMAIN info /\ info.first_version.hash = final_hash

\* the commits of the working tree, as the clone of r1 at the root holds them
clone_log(tree) ==
    [i \in DOMAIN tree.log |->
        [hash |-> tree.log[i].hash, repo |-> "r1", files |-> tree.log[i].files]]

\* git_component.py:662-670: `git log --format=... [<repos[repo]>..HEAD] -- loc`
\* run in repo_cwd
component_log(log, cwd, repos, loc) ==
    SelectSeq(log_range(head_log(log, cwd), dict_get(repos, ls_remote(cwd), NoRef)),
              LAMBDA c : under_pathspec(c, cwd, loc))

RECURSIVE component_changelog_from(_, _, _, _, _)
\* git_component.py:652-680: one location of the loop; check_output raises when
\* git rejects the range
component_location(log, locations, i, repos, st, cwd) ==
    IF ls_remote(cwd) \in DOMAIN repos /\ ~known_ref(log, cwd, repos[ls_remote(cwd)])
    THEN [st EXCEPT !.ok = FALSE]
    ELSE component_changelog_from(log, locations, i + 1, repos,
             add_commits(st, ls_remote(cwd),
                         component_log(log, cwd, repos,
                                       join(abs_location_root, locations[i]))))

\* git_component.py:651-680: the loop over all_git_files_to_look
component_changelog_from(log, locations, i, repos, st) ==
    IF i > Len(locations) THEN st
    ELSE component_location(log, locations, i, repos, st,
                            repo_cwd_of(join(abs_location_root, locations[i])))

\* cmp_file_name
cmp_file_name == "/etc/_git_components/component.yml"

\* git_component.py:682-689
new_changelog_info(ctx, st) ==
    [hash |-> ctx.final_hash,
     utcepoch |-> ctx.info.current_version.utcepoch,
     utctime |-> ctx.info.current_version.utctime,
     changelog |-> st.changelog,
     repos |-> ctx.info.current_version.repos,
     location |-> cmp_file_name]

\* git_component.py:690: open(cmp_changelog_file_path, "w+") truncates the file
open_changelog(ctx) ==
    Emit(ctx, Event("open_w", "changelog", 0, 0, <<>>),
         [ctx.fs EXCEPT !.changelog = EmptyFile])

\* git_component.py:691: yaml.safe_dump(old_changelog_info, f)
dump_changelog(ctx, history) ==
    Emit(ctx, Event("dump", "changelog", 0, 0, <<>>),
         [ctx.fs EXCEPT !.changelog = RecordFile([history |-> history])])

\* git_component.py:643-645: old_changelog_info = {"history": []}
reset_history(history) == <<>>

\* git_component.py:682-691: old_changelog_info['history'].insert(0, ...) and the
\* write; the entry reads info['current_version']['repos']
write_changelog(ctx, history, st) ==
    IF ~st.ok \/ "repos" \notin DOMAIN ctx.info.current_version
    THEN Stop(ctx, Raised)                            \* CalledProcessError, KeyError
    ELSE dump_changelog(open_changelog(ctx), <<new_changelog_info(ctx, st)>> \o history)

\* git_component.py:638-681: the commits of the entry
generate_changelog(ctx, history) ==
    IF is_first_install(ctx.info, ctx.final_hash)
    THEN write_changelog(ctx, reset_history(history),
             component_changelog_from(clone_log(working_tree),
                                      all_git_files_to_look(ctx.m), 1, EmptyDict, NoChanges))
    ELSE IF "repos" \notin DOMAIN ctx.info.previous_version
         THEN Stop(ctx, Raised)                       \* KeyError: 'repos'
         ELSE write_changelog(ctx, history,
                  component_changelog_from(clone_log(working_tree),
                                           all_git_files_to_look(ctx.m), 1,
                                           ctx.info.previous_version.repos, NoChanges))

\* git_component.py:628-637: the history of the file; an empty file loads as
\* None, which has no 'history'
load_changelog(ctx, file) ==
    IF file.kind = "empty" THEN Stop(ctx, Raised)
    ELSE IF file.kind = "record" /\ file.info.history # <<>>
            /\ file.info.history[1].hash = ctx.final_hash
         THEN ctx                                     \* already generated
         ELSE generate_changelog(ctx, IF file.kind = "record" THEN file.info.history
                                      ELSE <<>>)

\* git_component.py:626-692: the changelog of a component just installed or
\* updated
run_changelog(ctx) ==
    IF ~ctx.done /\ ctx.args.changelog /\ (ctx.is_just_installed \/ ctx.is_just_updated)
    THEN load_changelog(ctx, ctx.fs.changelog)
    ELSE ctx

\* an update that persists the record whatever the scripts returned
update_result_always_saved(ctx, old_info) ==
    [EmitSave(ctx, save_installation_info(ctx.final_hash, real_cfg_file,
                                          LastHook(ctx).ran, TRUE, old_info, now))
     EXCEPT !.is_just_updated = TRUE]

\* git_component.py:613-625: old_info is the record loaded
update_result(ctx, old_info) ==
    IF LastHook(ctx).res = 0
    THEN [EmitSave(ctx, save_installation_info(ctx.final_hash, real_cfg_file,
                                               LastHook(ctx).ran, TRUE, old_info, now))
          EXCEPT !.is_just_updated = TRUE]
    ELSE Stop(ctx, ExitWith(sys_exit(LastHook(ctx).res)))

\* an update that treats an empty list as a list whose scripts all succeeded
run_update_empty_succeeds(ctx, update_scripts) ==
    update_result(RunHook(ctx, "update", update_scripts), ctx.info)

\* git_component.py:608-625: the component must be updated, the manifest's
\* "update-scripts" being update_scripts
run_update(ctx, update_scripts) ==
    IF update_scripts = <<>> THEN NoteEmpty(ctx, "update")
    ELSE update_result(RunHook(ctx, "update", update_scripts), ctx.info)

\* an update check that looks neither at is_just_installed nor at the recorded
\* hash: any record is updated
Update_any_record(ctx) ==
    IF ~ctx.done /\ ctx.args.update_check /\ ctx.info # NoInfo
    THEN {run_update(ctx, update_scripts) : update_scripts \in ScriptLists}
    ELSE {ctx}

\* an update check that does not compare the recorded hash with the version
Update_without_compare(ctx) ==
    IF /\ ~ctx.done
       /\ ctx.args.update_check /\ ctx.info # NoInfo /\ ~ctx.is_just_installed
    THEN {run_update(ctx, update_scripts) : update_scripts \in ScriptLists}
    ELSE {ctx}

\* git_component.py:603-607: the outcomes of the update check
Update(ctx) ==
    IF /\ ~ctx.done
       /\ ctx.args.update_check /\ ctx.info # NoInfo /\ ~ctx.is_just_installed
       /\ ctx.info.current_version.hash # ctx.final_hash
    THEN {run_update(ctx, update_scripts) : update_scripts \in ScriptLists}
    ELSE {ctx}

\* git_component.py:590-601
install_result(ctx) ==
    IF LastHook(ctx).res = 0
    THEN [EmitSave(ctx, save_installation_info(ctx.final_hash, real_cfg_file,
                                               LastHook(ctx).ran, FALSE, NoInfo, now))
          EXCEPT !.is_just_installed = TRUE]
    ELSE Stop(ctx, ExitWith(sys_exit(LastHook(ctx).res)))

\* an install that treats an empty list as a list whose scripts all succeeded
run_install_empty_succeeds(ctx, inst_scripts) ==
    install_result(RunHook(ctx, "install", inst_scripts))

\* git_component.py:584-601: the component must be installed, the manifest's
\* "install-scripts" being inst_scripts
run_install(ctx, inst_scripts) ==
    IF inst_scripts = <<>> THEN NoteEmpty(ctx, "install")
    ELSE install_result(RunHook(ctx, "install", inst_scripts))

\* git_component.py:582: the outcomes of the install check
Install(ctx) ==
    IF ~ctx.done /\ ctx.args.install_check /\ ctx.info = NoInfo
    THEN {run_install(ctx, inst_scripts) : inst_scripts \in ScriptLists}
    ELSE {ctx}

\* git_component.py:572-573
make_store_dir(ctx) ==
    IF ~ctx.fs.store_dir
    THEN Emit(ctx, Event("makedirs", "store_dir", 0, 0, <<"store">>),
              [ctx.fs EXCEPT !.store_dir = TRUE])
    ELSE ctx

\* git_component.py:577-580
load_version(ctx, v) ==
    IF ~v.ok THEN Stop(ctx, Raised)
    ELSE [ctx EXCEPT !.final_hash = v.version, !.paths = v.paths,
                     !.info = load_installation_info(ctx.fs.store)]

\* git_component.py:559-580: has_changes is what self.has_changes() finds
run_checks(ctx, has_changes) ==
    IF ctx.args.check_changes_from_commit /\ ~has_changes
    THEN Stop([ctx EXCEPT !.no_changes = TRUE], ExitWith(sys_exit(0)))
    ELSE IF ctx.args.install_check \/ ctx.args.update_check
    THEN load_version(make_store_dir(ctx), get_git_version(ctx.m))
    ELSE ctx

\* no invocation is in progress: the process of the last one has exited
NoRun ==
    [args |-> Args(FALSE, FALSE, FALSE, FALSE, "none", FALSE, FALSE, FALSE),
     m |-> [locations |-> <<>>, dsts |-> <<>>, git_only_files |-> <<>>,
            package_actions |-> <<>>],
     pre |-> [store_dir |-> FALSE, store |-> NoFile, changelog |-> NoFile, packages |-> {},
              pack_store |-> FALSE],
     final_hash |-> NoVersion,
     result |-> ExitWith(0),
     fx |-> <<>>, hooks |-> <<>>,
     is_just_installed |-> FALSE, is_just_updated |-> FALSE, cmd_ret |-> RetNone,
     paths |-> <<>>, no_changes |-> FALSE]

\* The invocation ends with ctx.result, unless a kill cuts it after k of its
\* effects.
Finish(ctx) ==
    \E k \in 0..Len(ctx.fx) :
        LET fs == IF k = 0 THEN ctx.pre ELSE ctx.snaps[k]
            finished == k = Len(ctx.fx)
            saved == \E j \in 1..k : ctx.fx[j].op = "open_w" /\ ctx.fx[j].kind = "store"
        IN /\ store_dir' = fs.store_dir
           /\ store' = fs.store
           /\ store_changelog' = fs.changelog
           /\ packages' = fs.packages
           /\ pack_store' = fs.pack_store
           /\ now' = IF saved THEN now + 1 ELSE now
           /\ first_written' =
                  IF /\ first_written = NoEntry
                     /\ fs.store.kind = "record"
                     /\ "first_version" \in DOMAIN fs.store.info
                  THEN fs.store.info.first_version
                  ELSE first_written
           /\ interrupted' = (interrupted \/ (~finished /\ fs.store.kind = "empty"))
           /\ last' = [args |-> ctx.args,
                       m |-> ctx.m,
                       pre |-> ctx.pre,
                       final_hash |-> ctx.final_hash,
                       result |-> IF finished THEN ctx.result ELSE Killed,
                       fx |-> SubSeq(ctx.fx, 1, k),
                       hooks |-> ctx.hooks,
                       is_just_installed |-> ctx.is_just_installed,
                       is_just_updated |-> ctx.is_just_updated,
                       cmd_ret |-> ctx.cmd_ret,
                       paths |-> ctx.paths,
                       no_changes |-> ctx.no_changes]
           /\ UNCHANGED <<commits, call, gen_vars>>

\* GitComponent.run
Run(args, locations) ==
    /\ last = NoRun
    /\ now < MaxClock
    /\ LET pre == [store_dir |-> store_dir, store |-> store, changelog |-> store_changelog,
                   packages |-> packages, pack_store |-> pack_store]
           ctx == [args |-> args,
                   m |-> [locations |-> locations, dsts |-> <<>>,
                          git_only_files |-> <<>>, package_actions |-> <<>>],
                   pre |-> pre, fs |-> pre, fx |-> <<>>, snaps |-> <<>>,
                   final_hash |-> NoVersion, info |-> NoInfo,
                   is_just_installed |-> FALSE, is_just_updated |-> FALSE,
                   hooks |-> <<>>, cmd_ret |-> RetNone, paths |-> <<>>,
                   no_changes |-> FALSE,
                   returned |-> FALSE, done |-> FALSE, result |-> ExitWith(0)]
       IN \E has_changes \in BOOLEAN :
          \E c1 \in Install(run_checks(ctx, has_changes)) :
          \E c2 \in Update(c1) :
          \E c3 \in TestsOfType(run_changelog(c2), args.unittest_check, "unittest") :
          \E c4 \in TestsOfType(c3, args.integration_check, "integration") :
          \E c5 \in TestsOfType(c4, args.e2e_check, "e2e") :
          \E c6 \in Pack(c5) :
              Finish(EndRun(c6))

\* install and update checks of a component whose manifest names one location:
\* a, in the root, or one of .. and ../a, outside of it
RunPlain == \E args \in ArgsPlain, locations \in ComponentLocations : Run(args, locations)

RunTests == \E args \in ArgsTests, locations \in ComponentLocations : Run(args, locations)

RunPack == \E args \in ArgsPack, locations \in LocationLists : Run(args, locations)

\* The working tree moves to another history: commits are added, or dropped by
\* a reset
GitChange ==
    /\ last = NoRun
    /\ \E n \in 0..MaxCommits : n # commits /\ commits' = n
    /\ UNCHANGED <<store_dir, store, store_changelog, now, packages, pack_store,
                   first_written, interrupted, last, call, gen_vars>>

\* The clone is lost (its .git is removed or damaged): every git command fails
\* in the working tree from now on, until GitChange puts a clone back
GitBreak ==
    /\ last = NoRun
    /\ commits # NoRepository
    /\ commits' = NoRepository
    /\ UNCHANGED <<store_dir, store, store_changelog, now, packages, pack_store,
                   first_written, interrupted, last, call, gen_vars>>

\* The process exits: what is left of the invocation is on the filesystem
ProcessExit ==
    /\ last # NoRun
    /\ last' = NoRun
    /\ UNCHANGED <<store_dir, store, store_changelog, commits, now, packages, pack_store,
                   first_written, interrupted, call, gen_vars>>

\* no function is asked anything
NoCall == [op |-> "none"]

\* nothing is installed, and nothing has run
Fresh ==
    /\ store_dir = FALSE
    /\ store = NoFile
    /\ store_changelog = NoFile
    /\ now = 0
    /\ packages = {}
    /\ pack_store = FALSE
    /\ first_written = NoEntry
    /\ interrupted = FALSE
    /\ last = NoRun

\* no run of gen_simple_changelog is in progress
NoGen == [ran |-> FALSE]

\* the changelog file: it does not exist, or it holds the history list
ChangelogFile(present, history) == [exists |-> present, history |-> history]

\* the changelog generator has never run, and nothing is pushed
NoGenerator ==
    /\ pushed = <<>>
    /\ changelog_file = ChangelogFile(FALSE, <<>>)
    /\ gen = NoGen

Init ==
    /\ Fresh
    /\ NoGenerator
    /\ commits \in 0..MaxCommits
    /\ call = NoCall

Next == RunPlain \/ GitChange \/ ProcessExit

Spec == Init /\ [][Next]_vars

\* install and update checks in a working tree that can stop being a clone
NextBroken == RunPlain \/ GitChange \/ GitBreak \/ ProcessExit

SpecBroken == Init /\ [][NextBroken]_vars

NextTests == RunTests \/ GitChange \/ ProcessExit

SpecTests == Init /\ [][NextTests]_vars

NextPack == RunPack \/ GitChange \/ ProcessExit

SpecPack == Init /\ [][NextPack]_vars

\* ------------------------------------------- the changelog of the state store
\* git_component -C on a component that was installed from a history of n
\* commits by a release that keeps the snapshot of the repo hashes in the
\* version records, which lines 649 and 687 read.
ComponentManifest ==
    [locations |-> <<RelPath(<<"a">>)>>, dsts |-> <<>>, git_only_files |-> <<>>,
     package_actions |-> <<>>]

RecordedVersion(n) ==
    [hash |-> get_git_version_in(tree_of(n), ComponentManifest, DefaultLimit).version,
     utctime |-> 0,
     utcepoch |-> timestamp(0),
     location |-> real_cfg_file,
     duration |-> 1,
     repos |-> [r1 |-> CommitHash(n)]]

RecordWithRepos(n) ==
    [current_version |-> RecordedVersion(n), first_version |-> RecordedVersion(n)]

\* the entry of the changelog that install left
RecordedEntry(n) ==
    [hash |-> RecordedVersion(n).hash,
     utcepoch |-> RecordedVersion(n).utcepoch,
     utctime |-> RecordedVersion(n).utctime,
     changelog |-> [r1 |-> [i \in 1..n |-> [hash |-> CommitHash(n + 1 - i)]]],
     repos |-> RecordedVersion(n).repos,
     location |-> cmp_file_name]

InstalledWithRepos(n) ==
    /\ store = RecordFile(RecordWithRepos(n))
    /\ store_changelog \in {NoFile, RecordFile([history |-> <<RecordedEntry(n)>>])}
    /\ first_written = RecordWithRepos(n).first_version

InitLog ==
    /\ store_dir = TRUE
    /\ \E n \in 1..MaxCommits : InstalledWithRepos(n)
    /\ now = 0
    /\ packages = {}
    /\ pack_store = FALSE
    /\ interrupted = FALSE
    /\ last = NoRun
    /\ NoGenerator
    /\ commits \in 0..MaxCommits
    /\ call = NoCall

RunLog == \E args \in ArgsPlain : Run(args, ComponentManifest.locations)

NextLog == RunLog \/ GitChange \/ ProcessExit

SpecLog == InitLog /\ [][NextLog]_vars

\* ------------------------------------------------- the version computation
\* The files the commits of a history touch: the entry a of the root, a file g
\* of the root that is gone since, and a file x beside the root
TreeFiles ==
    {Append(abs_location_root.parts, "a"), Append(abs_location_root.parts, "g"),
     <<"srv", "x">>}

\* the paths of the lists: a, a/.. (the root), .. and ../a
VersionPaths ==
    {RelPath(<<"a">>), RelPath(<<"a", "..">>), RelPath(<<"..">>), RelPath(<<"..", "a">>)}

VersionLocationLists == UNION {[1..n -> VersionPaths] : n \in 1..MaxFiles}

\* a history of n commits, the newest first, touched[i] being the file the i-th
\* touches
log_of(touched) ==
    [i \in DOMAIN touched |-> Commit(Len(touched) + 1 - i, {touched[i]})]

Logs == {log_of(touched) : touched \in UNION {[1..n -> TreeFiles] : n \in 0..MaxLogLen}}

Tag(name, since) == [name |-> name, since |-> since]

\* no tag, the tag v1, or the tags v1 and v2, each put on any commit of a
\* history of n commits
TagLists(n) ==
    {<<>>}
        \cup {<<Tag(<<"v", "1">>, k)>> : k \in 0..n}
        \cup {<<Tag(<<"v", "1">>, k), Tag(<<"v", "2">>, j)>> : k, j \in 0..n}

VersionCalls(max_limit) ==
    {[op |-> "version",
      m |-> [locations |-> locations, dsts |-> <<>>, git_only_files |-> <<>>,
             package_actions |-> <<>>],
      tree |-> [tags |-> tags, log |-> log, broken |-> broken],
      limit |-> limit,
      done |-> FALSE,
      ret |-> [ok |-> FALSE, paths |-> <<>>, version |-> NoVersion]] :
        locations \in VersionLocationLists,
        log \in Logs,
        tags \in TagLists(MaxLogLen),
        broken \in BOOLEAN,
        limit \in 0..max_limit}

\* GitComponent.__get_git_version is called
GetVersion ==
    /\ call.op = "version"
    /\ ~call.done
    /\ call' = [call EXCEPT !.done = TRUE,
                            !.ret = get_git_version_in(call.tree, call.m, call.limit)]
    /\ UNCHANGED <<run_vars, gen_vars>>

InitVersion ==
    /\ Fresh
    /\ NoGenerator
    /\ commits = 0
    /\ call \in {c \in VersionCalls(MaxHashLimit) :
                     \A i \in DOMAIN c.tree.tags : c.tree.tags[i].since <= Len(c.tree.log)}

NextVersion == GetVersion

SpecVersion == InitVersion /\ [][NextVersion]_vars

\* ------------------------------------------------- the changelog generator
\* gen_simple_changelog (src/src/gen_simple_changelog.py) run in the manifest's
\* directory.

\* sys.exit(88) under __main__
AbortExit == 88

\* `git log -n1 --format=%H -- <loc>` with the joined location as pathspec
last_commit_of(log, loc) ==
    first_hash(SelectSeq(head_log(log, repo_cwd_of(loc)),
                         LAMBDA c : under_pathspec(c, repo_cwd_of(loc), loc)))

RECURSIVE get_repo_hash_from(_, _, _, _)
set_repo_hash(log, locations, i, repos, repo_hash) ==
    IF repo_hash = NoRef
    THEN [ok |-> FALSE, repos |-> repos]           \* raise AbortException
    ELSE get_repo_hash_from(log, locations, i + 1,
                            repos @@ (remote_of(locations[i]) :> repo_hash))

get_repo_hash_from(log, locations, i, repos) ==
    IF i > Len(locations) THEN [ok |-> TRUE, repos |-> repos]
    ELSE IF remote_of(locations[i]) \in DOMAIN repos
         THEN get_repo_hash_from(log, locations, i + 1, repos)
         ELSE set_repo_hash(log, locations, i, repos,
                            last_commit_of(log, join(abs_location_root, locations[i])))

\* the variant of _get_repo_hash that stops after the first location
get_repo_hash_first_location(log, locations) ==
    get_repo_hash_from(log, SubSeq(locations, 1, Min(1, Len(locations))), 1, EmptyDict)

\* GitComponent._get_repo_hash of gen_simple_changelog: ok = FALSE when it
\* raises AbortException
get_repo_hash(log, locations) == get_repo_hash_from(log, locations, 1, EmptyDict)

\* utils.compute_string_json_check_sum: hashlib's update refuses a str
compute_string_json_check_sum(input) == [raised |-> TRUE, hash |-> NoRef]

\* list(repos.values())[0] if len(repos) == 1 else compute_string_json_check_sum(repos)
final_hash_of(repos) ==
    IF Cardinality(DOMAIN repos) = 1
    THEN [raised |-> FALSE, hash |-> repos[CHOOSE repo \in DOMAIN repos : TRUE]]
    ELSE compute_string_json_check_sum(repos)

\* d[k] = v
setitem(d, k, v) == [x \in DOMAIN d \cup {k} |-> IF x = k THEN v ELSE d[x]]

\* the variant of the reference choice that asks the caller first
used_ref_caller_first(repo, org_loc, previous_repos, provided_log_from) ==
    IF org_loc \in DOMAIN provided_log_from THEN provided_log_from[org_loc]
    ELSE IF repo \in DOMAIN previous_repos THEN previous_repos[repo]
    ELSE NoRef

\* used_ref: the hash the previous entry recorded for the repo, else the
\* reference the caller gave for the location, else None
used_ref_of(repo, org_loc, previous_repos, provided_log_from) ==
    IF repo \in DOMAIN previous_repos THEN previous_repos[repo]
    ELSE IF org_loc \in DOMAIN provided_log_from THEN provided_log_from[org_loc]
    ELSE NoRef

\* `git log --format=... [<used_ref>..HEAD] [-- <org_loc>]` run in repo_cwd and
\* parsed by parse_commits
git_log_of(log, cwd, used_ref, org_loc) ==
    IF org_loc # Dot
    THEN SelectSeq(log_range(head_log(log, cwd), used_ref),
                   LAMBDA c : under_pathspec(c, cwd, org_loc))
    ELSE log_range(head_log(log, cwd), used_ref)

note_reference(st, repo, used_ref) ==
    IF used_ref # NoRef THEN [st EXCEPT !.used_references = setitem(@, repo, used_ref)]
    ELSE st

RECURSIVE gen_changelog_from(_, _, _, _, _, _)
\* one location of the loop; check_output raises when git rejects the range
log_location(log, locations, i, previous_repos, provided_log_from, st, repo, cwd, used_ref) ==
    IF used_ref # NoRef /\ ~known_ref(log, cwd, used_ref)
    THEN [note_reference(st, repo, used_ref) EXCEPT !.ok = FALSE]
    ELSE gen_changelog_from(log, locations, i + 1, previous_repos, provided_log_from,
             add_commits(note_reference(st, repo, used_ref), repo,
                         git_log_of(log, cwd, used_ref, locations[i])))

\* the loop over all_git_files_to_look
gen_changelog_from(log, locations, i, previous_repos, provided_log_from, st) ==
    IF i > Len(locations) THEN st
    ELSE log_location(log, locations, i, previous_repos, provided_log_from, st,
                      remote_of(locations[i]),
                      repo_cwd_of(join(abs_location_root, locations[i])),
                      used_ref_of(remote_of(locations[i]), locations[i], previous_repos,
                                  provided_log_from))

cl_info(repos, final_hash, t, st) ==
    [repos |-> repos, final_hash |-> final_hash, generated_at |-> t,
     changelog |-> st.changelog, used_references |-> st.used_references]

\* the variant of the write that puts the entry last
history_append(history, entry) == Append(history, entry)

\* current_changelog_info["history"].insert(0, cl_info)
history_insert(history, entry) == <<entry>> \o history

previous_repos_of(history) == IF history # <<>> THEN history[1].repos ELSE EmptyDict

\* how a run ends: the exit, the changelog file it leaves, whether it wrote it,
\* the snapshot it took and the references it used
gen_done(result, file, wrote, repos, st) ==
    [result |-> result, file |-> file, wrote |-> wrote, repos |-> repos,
     used_references |-> st.used_references, git_ok |-> st.ok]

gen_write(file, repos, final_hash, t, st) ==
    IF ~st.ok THEN gen_done(Raised, file, FALSE, repos, st)
    ELSE gen_done(ExitWith(0),
                  ChangelogFile(TRUE, history_insert(file.history,
                                                     cl_info(repos, final_hash, t, st))),
                  TRUE, repos, st)

\* a generator without the comparison with history[0]: every run that gets its
\* hash writes an entry
gen_compare_skipped(log, locations, provided_log_from, file, t, repos, final_hash) ==
    IF final_hash.raised THEN gen_done(Raised, file, FALSE, repos, NoChanges)
    ELSE gen_write(file, repos, final_hash.hash, t,
                   gen_changelog_from(log, locations, 1, previous_repos_of(file.history),
                                      provided_log_from, NoChanges))

\* gen_simple_changelog.py:206-211: the comparison with history[0]
gen_compare(log, locations, provided_log_from, file, t, repos, final_hash) ==
    IF final_hash.raised THEN gen_done(Raised, file, FALSE, repos, NoChanges)
    ELSE IF file.history # <<>> /\ file.history[1].final_hash = final_hash.hash
         THEN gen_done(ExitWith(0), file, FALSE, repos, NoChanges)
         ELSE gen_write(file, repos, final_hash.hash, t,
                        gen_changelog_from(log, locations, 1, previous_repos_of(file.history),
                                           provided_log_from, NoChanges))

gen_snapshot(log, locations, provided_log_from, file, t, r) ==
    IF ~r.ok
    THEN gen_done(ExitWith(AbortExit), file, FALSE, r.repos, [NoChanges EXCEPT !.ok = FALSE])
    ELSE gen_compare(log, locations, provided_log_from, file, t, r.repos,
                     final_hash_of(r.repos))

\* GitComponent._cmd_gen_changelog of gen_simple_changelog, under __main__
cmd_gen_changelog(log, locations, provided_log_from, file, t) ==
    gen_snapshot(log, locations, provided_log_from, file, t, get_repo_hash(log, locations))

GenLocationLists == UNION {[1..n -> GenLocations] : n \in 0..MaxGenLocs}

\* -F LOCATION:REF: none, or one reference for one location of the manifest (a
\* reference for any other location is never looked up)
ChangeLogFrom(locations) ==
    {EmptyDict} \cup {loc :> CommitHash(k) : loc \in Range(locations), k \in 1..MaxPushed}

\* the run repeats the one before it: the same manifest, and nothing was
\* pushed in between
repeats(g, locations, log) == g.ran /\ g.locations = locations /\ g.log = log

GenRunWith(locations, provided_log_from, out) ==
    /\ gen' = [ran |-> TRUE, locations |-> locations, change_log_from |-> provided_log_from,
               log |-> pushed, before |-> changelog_file, out |-> out,
               repeats |-> repeats(gen, locations, pushed),
               first_git_ok |-> gen.ran /\ gen.out.git_ok]
    /\ changelog_file' = out.file

\* gen_simple_changelog runs to its end
GenRun ==
    \E locations \in GenLocationLists : \E provided_log_from \in ChangeLogFrom(locations) :
        /\ now < MaxGenRuns
        /\ GenRunWith(locations, provided_log_from,
                      cmd_gen_changelog(pushed, locations, provided_log_from, changelog_file,
                                        now))
        /\ now' = now + 1
        /\ UNCHANGED <<store_dir, store, store_changelog, commits, packages, pack_store,
                       first_written, interrupted, last, call, pushed>>

\* somebody pushes a commit to one of the remotes
Push ==
    \E repo \in Remotes : \E files \in SUBSET RepoFiles[repo] \ {{}} :
        /\ Len(pushed) < MaxPushed
        /\ pushed' = <<RepoCommit(Len(pushed) + 1, repo, files)>> \o pushed
        /\ UNCHANGED <<run_vars, call, changelog_file, gen>>

InitGen ==
    /\ Fresh
    /\ NoGenerator
    /\ commits = 0
    /\ call = NoCall

NextGen == GenRun \/ Push

SpecGen == InitGen /\ [][NextGen]_vars

\* ------------------------------------------------ hook lists with depends
\* What the manifest holds under install-scripts or update-scripts: a list of
\* scripts, or a mapping with the keys depends and run in either order.
ScriptList(scripts) == [form |-> "list", items |-> scripts]

ScriptDict(keys, depends, scripts) ==
    [form |-> "dict", items |-> keys, depends |-> depends, run |-> scripts]

HookActions == {"install-scripts", "update-scripts"}

HookValues ==
    {ScriptList(scripts) : scripts \in ScriptLists}
        \cup {ScriptDict(keys, depends, scripts) :
                  keys \in {<<"depends", "run">>, <<"run", "depends">>},
                  depends \in {<<>>} \cup {<<a>> : a \in HookActions},
                  scripts \in ScriptLists}

\* the exit code of `sh -c <word>` for a word that names no program
CommandNotFound == 127

\* subprocess.run(script, shell=True).returncode of the i-th item: a script is
\* its exit code, a key of the mapping is a word the shell does not find
returncode(value, i) == IF value.form = "dict" THEN CommandNotFound ELSE value.items[i]

\* the exit codes of the items enumerate() yields
returncodes(value) == [i \in DOMAIN value.items |-> returncode(value, i)]

\* GitComponent._run_scripts on the value of an action: enumerate() walks the
\* items of a list and the keys of a mapping
run_hook(file, action) ==
    [raised |-> "none",
     res |-> run_scripts(returncodes(file[action])).res,
     started |-> SubSeq(file[action].items, 1, run_scripts(returncodes(file[action])).ran)]

HookCalls(values) ==
    {[op |-> "hook", file |-> file, action |-> action, done |-> FALSE,
      ret |-> [raised |-> "none", res |-> 0, started |-> <<>>]] :
        file \in [HookActions -> values], action \in HookActions}

\* `not inst_scripts or len(inst_scripts) == 0`: nothing to run
file_nonempty(value) == value.items # <<>>

\* the scripts of an action of the manifest are run
RunHookList ==
    /\ call.op = "hook"
    /\ ~call.done
    /\ file_nonempty(call.file[call.action])
    /\ call' = [call EXCEPT !.done = TRUE, !.ret = run_hook(call.file, call.action)]
    /\ UNCHANGED <<run_vars, gen_vars>>

InitHooks ==
    /\ Fresh
    /\ NoGenerator
    /\ commits = 0
    /\ call \in HookCalls(HookValues)

NextHooks == RunHookList

SpecHooks == InitHooks /\ [][NextHooks]_vars

\* ------------------------------------------------------- the commit-log text
\* A text is the sequence of its characters.

\* "_#._", which git log --format puts before each commit
CommitMark == <<"_", "#", ".", "_">>

\* "|$.|", which it puts between the fields
FieldMark == <<"|", "$", ".", "|">>

Whitespace == {" ", "\n"}

\* sep occurs in txt at position i
occurs_at(txt, sep, i) ==
    i + Len(sep) - 1 <= Len(txt) /\ SubSeq(txt, i, i + Len(sep) - 1) = sep

RECURSIVE split_from(_, _, _, _, _, _)
\* str.split(sep, maxsplit): the scan is at position i, the piece being read
\* began at start, acc holds the pieces cut off so far
split_from(txt, sep, maxsplit, start, i, acc) ==
    IF maxsplit = 0 \/ i + Len(sep) - 1 > Len(txt)
    THEN Append(acc, SubSeq(txt, start, Len(txt)))
    ELSE IF occurs_at(txt, sep, i)
         THEN split_from(txt, sep, maxsplit - 1, i + Len(sep), i + Len(sep),
                         Append(acc, SubSeq(txt, start, i - 1)))
         ELSE split_from(txt, sep, maxsplit, start, i + 1, acc)

\* str.split(sep, maxsplit=maxsplit); a text of n characters has fewer than n + 1
\* separators, so maxsplit = n + 1 is no limit
split(txt, sep, maxsplit) == split_from(txt, sep, maxsplit, 1, 1, <<>>)

\* str.strip()
strip(txt) ==
    IF \A i \in DOMAIN txt : txt[i] \in Whitespace THEN <<>>
    ELSE SubSeq(txt,
                CHOOSE i \in DOMAIN txt :
                    txt[i] \notin Whitespace /\ \A j \in 1..(i - 1) : txt[j] \in Whitespace,
                CHOOSE i \in DOMAIN txt :
                    txt[i] \notin Whitespace /\ \A j \in (i + 1)..Len(txt) : txt[j] \in Whitespace)

\* a split of the segment at every "|$.|", the ones in the body included
split_fields_all(commit) == split(commit, FieldMark, Len(commit) + 1)

\* utils.py:126: commit.split("|$.|", maxsplit=5)
split_fields(commit) == split(commit, FieldMark, 5)

\* utils.py:127-136: the dict of one segment
commit_of(items) ==
    [hash |-> strip(items[1]), author |-> strip(items[2]), time |-> strip(items[3]),
     subject |-> strip(items[4]), author_email |-> strip(items[5]),
     body |-> strip(items[6])]

RECURSIVE parse_segments(_, _, _)
\* utils.py:122-136: the loop over the segments; commit[k] raises IndexError
\* when the segment has fewer than six fields
parse_segments(segments, i, res) ==
    IF i > Len(segments) THEN [ok |-> TRUE, commits |-> res]
    ELSE IF strip(segments[i]) = <<>> THEN parse_segments(segments, i + 1, res)
    ELSE IF Len(split_fields(strip(segments[i]))) < 6 THEN [ok |-> FALSE, commits |-> <<>>]
    ELSE parse_segments(segments, i + 1,
                        Append(res, commit_of(split_fields(strip(segments[i])))))

\* utils.parse_commits(txt)
parse_commits(txt) == parse_segments(split(txt, CommitMark, Len(txt) + 1), 1, <<>>)

RECURSIVE join_fields(_, _)
\* the fields from the i-th on, joined by "|$.|"
join_fields(fields, i) ==
    IF i = Len(fields) THEN fields[i]
    ELSE fields[i] \o FieldMark \o join_fields(fields, i + 1)

RECURSIVE log_text(_, _)
\* gen_simple_changelog.py:240: what git log --format=_#._%H|$.|%aN|$.|%aI|$.|
\* %s|$.|%ae|$.|%b prints for the records from the i-th on
log_text(records, i) ==
    IF i > Len(records) THEN <<>>
    ELSE CommitMark \o join_fields(records[i], 1) \o log_text(records, i + 1)

\* the six fields of an ordinary i-th commit: hash, author, time, subject,
\* author_email, body
PlainFields(i) == <<<<"h">> \o str_int(i), <<"a">>, <<"t">>, <<"s">>, <<"e">>, <<"b">>>>

\* field contents that try the parser: empty, padded with blanks, a mark, the
\* first three characters of a mark, the first character of one
OddContents ==
    {<<>>, <<" ", "x", " ">>, FieldMark, CommitMark,
     SubSeq(FieldMark, 1, 3), SubSeq(CommitMark, 1, 3), <<"|">>, <<"_">>}

\* the records an i-th commit can print as: the ordinary one, or one of its
\* fields with odd content
RecordsAt(i) ==
    {PlainFields(i)} \cup
    {[PlainFields(i) EXCEPT ![f] = content] : f \in 1..6, content \in OddContents}

RECURSIVE RecordListsOf(_)
\* the lists of n records
RecordListsOf(n) ==
    IF n = 0 THEN {<<>>}
    ELSE {Append(records, r) : records \in RecordListsOf(n - 1), r \in RecordsAt(n)}

RecordLists(max_records) == UNION {RecordListsOf(n) : n \in 0..max_records}

ParseCalls(max_records) ==
    {[op |-> "parse", records |-> records, done |-> FALSE,
      ret |-> [ok |-> FALSE, commits |-> <<>>]] : records \in RecordLists(max_records)}

\* gen_simple_changelog.py:256-257: parse_commits is given the output of git log
ParseCommits ==
    /\ call.op = "parse"
    /\ ~call.done
    /\ call' = [call EXCEPT !.done = TRUE,
                            !.ret = parse_commits(log_text(call.records, 1))]
    /\ UNCHANGED <<run_vars, gen_vars>>

InitParse ==
    /\ Fresh
    /\ NoGenerator
    /\ commits = 0
    /\ call \in ParseCalls(MaxRecords)

NextParse == ParseCommits

SpecParse == InitParse /\ [][NextParse]_vars

\* --------------------------------------------------------- the path resolver

\* the spellings of the entries: a, ./a and /srv/repo/a (the entry a of the
\* root), . and a/.. (the root), and .. (the parent of the root)
ResolverEntries ==
    {RelPath(<<"a">>), RelPath(<<".", "a">>), AbsPath(Append(abs_location_root.parts, "a")),
     RelPath(<<".">>), RelPath(<<"a", "..">>), RelPath(<<"..">>)}

EntryLists(n) == UNION {[1..k -> ResolverEntries] : k \in 0..n}

PathCalls(max_files) ==
    {[op |-> "paths",
      m |-> [locations |-> locations, dsts |-> <<>>, git_only_files |-> git_only_files,
             package_actions |-> package_actions],
      done |-> FALSE,
      ret |-> [ok |-> FALSE, paths |-> <<>>]] :
        locations \in EntryLists(max_files),
        git_only_files \in EntryLists(MaxOnlyFiles),
        package_actions \in EntryLists(MaxActions)}

\* GitComponent.__get_paths_to_git_check is called
ResolvePaths ==
    /\ call.op = "paths"
    /\ ~call.done
    /\ call' = [call EXCEPT !.done = TRUE,
                            !.ret = get_paths_to_git_check(all_git_files_to_look(call.m))]
    /\ UNCHANGED <<run_vars, gen_vars>>

InitPaths ==
    /\ Fresh
    /\ NoGenerator
    /\ commits = 0
    /\ call \in PathCalls(MaxFiles)

NextPaths == ResolvePaths

SpecPaths == InitPaths /\ [][NextPaths]_vars

\* ------------------------------------------------- the merge into the record

\* the remotes a stored snapshot can name
SnapshotRemotes == {"rA", "rB"}

\* the version dicts a record of the state store can hold for commit n: the five
\* keys _save_installation_info writes, with or without a repos snapshot and a
\* key of the user's
StoredVersions(n) ==
    LET written == [hash |-> CommitHash(n), utctime |-> 0, utcepoch |-> timestamp(0),
                    location |-> real_cfg_file, duration |-> 1]
        snapshots == {written} \cup
                     {setitem(written, "repos", [r \in rs |-> CommitHash(n)]) :
                          rs \in SUBSET SnapshotRemotes \ {{}}}
    IN snapshots \cup {setitem(v, "note", "kept") : v \in snapshots}

\* the records an update can find: current_version, and any of previous_version,
\* first_version and a top-level key of the user's
StoredRecords ==
    {[k \in ks \cup {"current_version"} |->
          [current_version |-> cv, previous_version |-> pv,
           first_version |-> [hash |-> CommitHash(0)], name |-> "component"][k]] :
        cv \in StoredVersions(1), pv \in StoredVersions(0),
        ks \in SUBSET {"previous_version", "first_version", "name"}}

SaveCalls ==
    {[op |-> "save", old_info |-> old_info, final_hash |-> CommitHash(2), t |-> 1,
      done |-> FALSE, ret |-> NoInfo] : old_info \in StoredRecords}

\* the save of a successful update
SaveUpdate ==
    /\ call.op = "save"
    /\ ~call.done
    /\ call' = [call EXCEPT !.done = TRUE,
                            !.ret = save_installation_info(call.final_hash, real_cfg_file, 1,
                                                           TRUE, call.old_info, call.t)]
    /\ UNCHANGED <<run_vars, gen_vars>>

InitMerge ==
    /\ Fresh
    /\ NoGenerator
    /\ commits = 0
    /\ call \in SaveCalls

NextMerge == SaveUpdate

SpecMerge == InitMerge /\ [][NextMerge]_vars

\* ---------------------------------------------------------------- properties
\* The observations of the last invocation the properties speak of.

\* the version the last invocation computes (the history does not move while it
\* runs)
ComputedVersion == get_git_version(last.m).version

\* the record the last invocation loaded, NoInfo if there was none
LoadedInfo == load_installation_info(last.pre.store)

\* the last invocation got as far as the install and update checks: it did not
\* return for want of changes, and its paths were accepted
Checked ==
    /\ last # NoRun
    /\ last.args.install_check \/ last.args.update_check
    /\ ~last.no_changes
    /\ get_git_version(last.m).ok

\* the exit codes of the scripts of one kind that the last invocation started
ScriptsRun(kind) ==
    SelectSeq(last.fx, LAMBDA ev : ev.op = "script" /\ ev.kind = kind)

\* the last invocation wrote to the state-store file
StoreWritten == \E j \in DOMAIN last.fx : last.fx[j].kind = "store"

\* the last invocation took the install branch
InstallCase ==
    /\ Checked
    /\ last.args.install_check
    /\ LoadedInfo = NoInfo
    /\ last.result # Killed

\* C1 (as amended): a run with install_check that finds no record runs the
\* install scripts; when the list is not empty and every script succeeded it
\* leaves a record whose current_version.hash and first_version.hash are the
\* version computed; when the list is empty or missing it runs nothing and
\* leaves the state store as it was.
C1_InstallTransition ==
    InstallCase =>
        /\ last.hooks # <<>>
        /\ last.hooks[1].kind = "install"
        /\ (last.hooks[1].scripts # <<>> /\ last.hooks[1].res = 0) =>
               /\ Len(ScriptsRun("install")) = Len(last.hooks[1].scripts)
               /\ store.kind = "record"
               /\ store.info.current_version.hash = ComputedVersion
               /\ store.info.first_version.hash = ComputedVersion
        /\ last.hooks[1].scripts = <<>> =>
               /\ ScriptsRun("install") = <<>>
               /\ store = last.pre.store

\* C1 as stated: whenever the install scripts have all succeeded, the empty
\* list included, the record is persisted with both hashes the version computed
C1_InstallForEveryManifest ==
    (InstallCase /\ last.hooks # <<>> /\ last.hooks[1].res = 0) =>
        /\ store.kind = "record"
        /\ store.info.current_version.hash = ComputedVersion
        /\ store.info.first_version.hash = ComputedVersion

\* an install of two scripts has succeeded and left its record
C1_Witness ==
    /\ InstallCase
    /\ last.hooks # <<>>
    /\ Len(last.hooks[1].scripts) = 2
    /\ last.hooks[1].res = 0
    /\ store.kind = "record"
    /\ last.pre.store = NoFile

\* the last invocation took the update branch: a record is loaded whose
\* current_version.hash differs from the version computed
UpdateCase ==
    /\ Checked
    /\ last.args.update_check
    /\ LoadedInfo # NoInfo
    /\ LoadedInfo.current_version.hash # ComputedVersion
    /\ last.result # Killed

\* C2: an update whose scripts were run and all succeeded leaves a record whose
\* previous_version is the whole current_version of the record loaded, and whose
\* current_version.hash is the version computed.
C2_UpdateTransition ==
    UpdateCase =>
        /\ last.hooks # <<>>
        /\ last.hooks[1].kind = "update"
        /\ (last.hooks[1].scripts # <<>> /\ last.hooks[1].res = 0) =>
               /\ Len(ScriptsRun("update")) = Len(last.hooks[1].scripts)
               /\ store.kind = "record"
               /\ store.info.previous_version = LoadedInfo.current_version
               /\ store.info.current_version.hash = ComputedVersion

\* a second update has succeeded: the record loaded carried a previous_version
\* of its own
C2_Witness ==
    /\ UpdateCase
    /\ last.hooks # <<>>
    /\ last.hooks[1].scripts # <<>>
    /\ last.hooks[1].res = 0
    /\ "previous_version" \in DOMAIN LoadedInfo
    /\ LoadedInfo.previous_version # LoadedInfo.current_version
    /\ store.kind = "record"

\* the last invocation found the component up to date
UpToDateCase ==
    /\ Checked
    /\ last.args.update_check
    /\ LoadedInfo # NoInfo
    /\ LoadedInfo.current_version.hash = ComputedVersion

\* C3: when the record loaded carries the version computed, no install script
\* and no update script is started and the state store is left as it was.
C3_UpToDateNoOp ==
    UpToDateCase =>
        /\ ScriptsRun("install") = <<>>
        /\ ScriptsRun("update") = <<>>
        /\ ~StoreWritten
        /\ store = last.pre.store

\* an up-to-date check, with -i as well, of a component that was updated before
C3_Witness ==
    /\ UpToDateCase
    /\ last.args.install_check
    /\ "previous_version" \in DOMAIN LoadedInfo
    /\ last.result = ExitWith(0)

\* an install or update script of the last invocation exited non-zero
HookFailed ==
    /\ last # NoRun
    /\ \E i \in DOMAIN last.hooks :
           last.hooks[i].kind \in {"install", "update"} /\ last.hooks[i].res # 0

\* C4: when an install or update script fails, the run writes nothing to the
\* state-store file: a missing record stays missing, a record stays as it was.
C4_FailedHookLeavesStore ==
    HookFailed => ~StoreWritten /\ store = last.pre.store

\* an update whose second script failed, over a record that stays
C4_Witness ==
    /\ HookFailed
    /\ last.hooks[1].kind = "update"
    /\ last.hooks[1].ran = 2
    /\ store.kind = "record"
    /\ last.result = ExitWith(last.hooks[1].res)

\* the hook-script lists of the last invocation in which a script failed
FailedHooks == {i \in DOMAIN last.hooks : last.hooks[i].res # 0}

\* C5: the process exits with the first non-zero exit code of a script of any
\* hook list, and with 0 only when no script failed.
C5_ExitCodePropagation ==
    (last # NoRun /\ last.result.kind = "exit") =>
        IF FailedHooks = {}
        THEN last.result.code = 0
        ELSE last.result.code =
                 last.hooks[CHOOSE i \in FailedHooks : \A j \in FailedHooks : i <= j].res

\* C6: once a record with first_version has been written, every record found
\* in the state store later carries that same first_version (over runs none of
\* whose saves was cut by a kill).
C6_FirstVersionImmutable ==
    (first_written # NoEntry /\ ~interrupted) =>
        /\ store.kind = "record"
        /\ "first_version" \in DOMAIN store.info
        /\ store.info.first_version = first_written

\* two updates after the install: the record has moved twice, at other times
\* and to other versions than the first
C6_Witness ==
    /\ first_written # NoEntry
    /\ ~interrupted
    /\ store.kind = "record"
    /\ "previous_version" \in DOMAIN store.info
    /\ store.info.previous_version # first_written
    /\ store.info.current_version.hash # first_written.hash
    /\ store.info.current_version.utctime # first_written.utctime

\* C7: when the process is killed, the state-store file is the complete old
\* file or the complete new record, never empty.
C7_AtomicSave ==
    (last # NoRun /\ last.result = Killed) =>
        \/ store = last.pre.store
        \/ /\ store.kind = "record"
           /\ store.info.current_version.hash = last.final_hash

\* C8: every path the resolver returns is the root or lies inside it.
C8_RootContainment ==
    last # NoRun =>
        \A i \in DOMAIN last.paths :
            IsUnder(join(abs_location_root, RelPath(last.paths[i])), abs_location_root)

\* a location of the last invocation's manifest lies outside the root
LocationEscapes ==
    /\ last # NoRun
    /\ \E i \in DOMAIN last.m.locations :
           ~IsUnder(join(abs_location_root, last.m.locations[i]), abs_location_root)

\* C9: a run whose manifest holds a location outside the root creates no
\* directory, starts no script, copies no file and writes no store file.
C9_RejectionBeforeMutation ==
    LocationEscapes => last.fx = <<>>

\* C10: every copy of pack writes to a destination inside the package directory.
C10_DestinationContainment ==
    last # NoRun =>
        \A j \in DOMAIN last.fx :
            last.fx[j].op = "copy" => IsPrefix(package_dir.parts, last.fx[j].path)

\* the version computation has returned a version
VersionComputed == call.op = "version" /\ call.done /\ call.ret.ok

\* the orders in which the entries of a list can be written
Orders(seq) ==
    {[i \in DOMAIN seq |-> seq[f[i]]] :
        f \in {g \in [DOMAIN seq -> DOMAIN seq] : \A i, j \in DOMAIN seq : i # j => g[i] # g[j]}}

\* the version of the manifest with its locations in another order
VersionOf(locations) ==
    get_git_version_in(call.tree, [call.m EXCEPT !.locations = locations], call.limit)

\* the same version comes out of every order of the locations
OrderIndependent ==
    \A locations \in Orders(call.m.locations) :
        /\ VersionOf(locations).ok
        /\ VersionOf(locations).version = call.ret.version

\* the paths the resolver accepts in this model, in the order of their strings
PathsInOrder == <<<<".">>, <<"..">>, <<"a">>>>

PathRank(p) == CHOOSE i \in DOMAIN PathsInOrder : PathsInOrder[i] = p

IsSorted(paths) ==
    \A i, j \in DOMAIN paths : i < j => PathRank(paths[i]) <= PathRank(paths[j])

LastTag ==
    IF call.tree.tags = <<>> THEN NoTag ELSE call.tree.tags[Len(call.tree.tags)]

\* the commits since the tag (all of them without a tag) that touch a path
Qualifying ==
    {i \in DOMAIN call.tree.log :
        /\ LastTag = NoTag \/ i <= LastTag.since
        /\ touches(call.tree.log[i], call.ret.paths)}

\* the first k characters of a string
FirstChars(str, k) == [i \in 1..(IF k < Len(str) THEN k ELSE Len(str)) |-> str[i]]

Newest == CHOOSE i \in Qualifying : \A j \in Qualifying : i <= j

\* C12: the version that comes out of the answers of git is the last tag
\* (0.0.1 without a tag) followed by a suffix that is empty exactly when no
\* commit touches the paths since the tag, and else is -N-H, N the number of
\* these commits and H the first hash_limit characters of the hash of the
\* newest of them.
C12_VersionFormat ==
    (VersionComputed /\ ~call.tree.broken) =>
        call.ret.version =
            (IF LastTag = NoTag THEN <<"0", ".", "0", ".", "1">> ELSE LastTag.name)
                \o (IF Qualifying = {}
                    THEN <<>>
                    ELSE <<"-", Digits[Cardinality(Qualifying) + 1], "-">>
                             \o FirstChars(call.tree.log[Newest].hash, call.limit))

\* two tags, two commits since the last one listed, the newer of which does not
\* touch the paths, and a hash cut short
C12_Witness ==
    /\ VersionComputed
    /\ ~call.tree.broken
    /\ Len(call.tree.tags) = 2
    /\ LastTag.since = 2
    /\ Qualifying = {2}
    /\ call.limit = 2
    /\ call.ret.version = <<"v", "2", "-", "1", "-", "c", "1">>

\* The observations of the last run of gen_simple_changelog.

\* the history the run found, and the one it left
HistoryBefore == gen.before.history

HistoryAfter == gen.out.file.history

\* the run took its snapshot: no AbortException ended it
SnapshotTaken == gen.ran /\ gen.out.result # ExitWith(AbortExit)

\* the run wrote the changelog file
EntryWritten == gen.ran /\ gen.out.wrote

\* the remotes of the locations of the manifest
RemotesOf(locations) == {remote_of(locations[i]) : i \in DOMAIN locations}

NewEntry == HistoryAfter[1]

\* the places of an entry's changelog: a repo and an index of its list
Places(entry) ==
    UNION {{<<repo, k>> : k \in DOMAIN entry.changelog[repo]} : repo \in DOMAIN entry.changelog}

HashAt(entry, pl) == entry.changelog[pl[1]][pl[2]].hash

\* the hashes git printed for the i-th location of the run
Answered(i) ==
    {c.hash : c \in Range(git_log_of(gen.log,
                                      repo_cwd_of(join(abs_location_root, gen.locations[i])),
                                      used_ref_of(remote_of(gen.locations[i]), gen.locations[i],
                                                  previous_repos_of(HistoryBefore),
                                                  gen.change_log_from),
                                      gen.locations[i]))}

\* the first location of the run for which git printed the hash
FirstAnswered(hash) ==
    CHOOSE i \in DOMAIN gen.locations :
        hash \in Answered(i) /\ \A j \in 1..(i - 1) : hash \notin Answered(j)

\* C16: no commit hash occurs twice in an entry of the history, across all the
\* lists of its changelog; the entry a run writes lists every commit git
\* printed for a location, under the repo of the first location it was printed
\* for and in the order of these first locations.
C16_CommitsUnique ==
    /\ \A e \in DOMAIN changelog_file.history :
           \A p, q \in Places(changelog_file.history[e]) :
               HashAt(changelog_file.history[e], p) = HashAt(changelog_file.history[e], q)
                   => p = q
    /\ EntryWritten =>
           /\ {HashAt(NewEntry, p) : p \in Places(NewEntry)}
                  = UNION {Answered(i) : i \in DOMAIN gen.locations}
           /\ \A p, q \in Places(NewEntry) :
                  /\ p[1] = remote_of(gen.locations[FirstAnswered(HashAt(NewEntry, p))])
                  /\ (p[1] = q[1] /\ p[2] < q[2]) =>
                         FirstAnswered(HashAt(NewEntry, p)) <= FirstAnswered(HashAt(NewEntry, q))

\* git prints the same commit for the two locations of a manifest, and the
\* entry lists it once
C16_Witness ==
    /\ EntryWritten
    /\ Len(gen.locations) = 2
    /\ gen.locations[1] # gen.locations[2]
    /\ Answered(1) \cap Answered(2) # {}
    /\ Cardinality(Places(NewEntry)) = Cardinality(Answered(1) \cup Answered(2))

\* the locations of the run that lie in a repo
LocationsOf(repo) == {i \in DOMAIN gen.locations : remote_of(gen.locations[i]) = repo}

\* the locations of a repo the caller gave a reference for
Overridden(repo) == {i \in LocationsOf(repo) : gen.locations[i] \in DOMAIN gen.change_log_from}

\* C17 as claimed: the reference the caller gives for a location is the one
\* used for it, whatever the previous entry recorded: the entry a run writes
\* carries it in used_references, under the repo of the location.
C17_OverridePreferred ==
    EntryWritten =>
        \A i \in DOMAIN gen.locations :
            gen.locations[i] \in DOMAIN gen.change_log_from =>
                /\ remote_of(gen.locations[i]) \in DOMAIN NewEntry.used_references
                /\ NewEntry.used_references[remote_of(gen.locations[i])]
                       = gen.change_log_from[gen.locations[i]]

\* C17: the hash the previous entry recorded for the repo of a location is the
\* reference used for it; only without one is the reference the caller gave
\* for the location used; with neither, none is.  The entry records under
\* each repo the reference used for its locations, and lists no commit up to
\* it.
C17_SnapshotPreferred ==
    EntryWritten =>
        \A repo \in RemotesOf(gen.locations) :
            IF repo \in DOMAIN previous_repos_of(HistoryBefore)
            THEN /\ repo \in DOMAIN NewEntry.used_references
                 /\ NewEntry.used_references[repo] = HistoryBefore[1].repos[repo]
                 /\ \A p \in Places(NewEntry) :
                        HashAt(NewEntry, p) # HistoryBefore[1].repos[repo]
            ELSE IF Overridden(repo) # {}
                 THEN /\ repo \in DOMAIN NewEntry.used_references
                      /\ \E i \in Overridden(repo) :
                             NewEntry.used_references[repo]
                                 = gen.change_log_from[gen.locations[i]]
                 ELSE repo \notin DOMAIN NewEntry.used_references

\* the caller gives a reference for a location whose repo the previous entry
\* has a hash for, and the two differ
C17_Witness ==
    /\ EntryWritten
    /\ HistoryBefore # <<>>
    /\ \E i \in DOMAIN gen.locations :
           /\ gen.locations[i] \in DOMAIN gen.change_log_from
           /\ remote_of(gen.locations[i]) \in DOMAIN HistoryBefore[1].repos
           /\ gen.change_log_from[gen.locations[i]]
                  # HistoryBefore[1].repos[remote_of(gen.locations[i])]

\* C18: the snapshot a run takes has one key for each remote the locations of
\* the manifest lie in, and no other key, however many locations share a
\* remote.
C18_OneKeyPerRemote ==
    SnapshotTaken => DOMAIN gen.out.repos = RemotesOf(gen.locations)

\* two locations of one remote and one key
C18_Witness ==
    /\ SnapshotTaken
    /\ Len(gen.locations) = 2
    /\ gen.locations[1] # gen.locations[2]
    /\ DOMAIN gen.out.repos = {"r1"}

\* the commits of the log of a run that touch a location of a repo
Touching(repo) ==
    {k \in DOMAIN gen.log :
        /\ gen.log[k].repo = repo
        /\ \E i \in LocationsOf(repo) :
               under_pathspec(gen.log[k], abs_location_root,
                              join(abs_location_root, gen.locations[i]))}

\* C19 as claimed: the hash a snapshot holds for a repo is that of the newest
\* commit that touches any location of the manifest in the repo.
C19_SnapshotOfAnyLocation ==
    SnapshotTaken =>
        \A repo \in DOMAIN gen.out.repos :
            /\ Touching(repo) # {}
            /\ gen.out.repos[repo]
                   = gen.log[CHOOSE k \in Touching(repo) : \A j \in Touching(repo) : k <= j].hash

\* the script lists of two actions depend on each other
Circular ==
    /\ call.op = "hook"
    /\ call.file[call.action].form = "dict"
    /\ \E b \in Range(call.file[call.action].depends) :
           /\ b # call.action
           /\ call.file[b].form = "dict"
           /\ call.action \in Range(call.file[b].depends)

\* C20 as claimed: running an action whose list depends on the list of another
\* action that depends on it fails with CircularDependency, and no script of
\* either list is started.
C20_CircularDependencyFatal ==
    (Circular /\ call.done) =>
        /\ call.ret.raised = "CircularDependency"
        /\ call.ret.started = <<>>

\* the history a changelog file of the store holds
History(file) == IF file.kind = "record" THEN file.info.history ELSE <<>>

\* the entries of a history from the k-th on
EntriesFrom(history, k) == [i \in 1..(Len(history) + 1 - k) |-> history[i + k - 1]]

VersionControlFailed ==
    /\ last # NoRun
    /\ last.args.install_check \/ last.args.update_check
    /\ ~last.no_changes
    /\ working_tree.broken

\* C21: when git fails for the component's locations the install/update run
\* aborts: it does not exit 0, it computes no version string (in particular
\* not the default 0.0.1), it starts no hook script and leaves the state store
\* as it found it.
C21_VersionControlFailureFatal ==
    VersionControlFailed =>
        /\ last.result # ExitWith(0)
        /\ last.final_hash = NoVersion
        /\ \A j \in DOMAIN last.fx : last.fx[j].op # "script"
        /\ store = last.pre.store

\* the last invocation was asked for a changelog and has just installed or
\* updated the component, every script having exited 0, and was not killed
ChangelogCase ==
    /\ last # NoRun
    /\ last.args.changelog
    /\ last.is_just_installed \/ last.is_just_updated
    /\ last.result # Killed

\* C22: a run with --changelog that has just installed or updated the
\* component completes, and leaves a changelog file whose history[0] has the
\* computed version as its hash and, as its repos, the snapshot that the
\* persisted record carries in current_version.
C22_ChangelogAfterInstallOrUpdate ==
    ChangelogCase =>
        /\ last.result # Raised
        /\ store.kind = "record"
        /\ "repos" \in DOMAIN store.info.current_version
        /\ store_changelog.kind = "record"
        /\ store_changelog.info.history # <<>>
        /\ store_changelog.info.history[1].hash = last.final_hash
        /\ store_changelog.info.history[1].repos = store.info.current_version.repos

\* the record a successful update found, and the record it wrote
Saved == call.op = "save" /\ call.done

\* the keys of the version dict that _save_installation_info builds
WrittenKeys == {"hash", "utctime", "utcepoch", "location", "duration"}

\* every key of old that is not among carried is in new with its old value
KeptExcept(old, new, carried) ==
    \A k \in DOMAIN old \ carried : k \in DOMAIN new /\ new[k] = old[k]

\* the keys of a version dict's repos snapshot, none when it has no snapshot
ReposOf(version) == dict_get(version, "repos", EmptyDict)

\* C23: the record written by a successful update differs from the old record
\* in current_version and previous_version only; every other top-level key, every
\* key of the old current_version that the new one does not carry, and every
\* key of the old previous_version (and of its repos snapshot) that the old
\* current_version does not carry, is in the record written with its old value.
C23_DeepMerge ==
    Saved =>
        LET old == call.old_info
            new == call.ret
            old_previous == dict_get(old, "previous_version", EmptyDict)
        IN /\ DOMAIN new = DOMAIN old \cup {"previous_version"}
           /\ KeptExcept(old, new, {"current_version", "previous_version"})
           /\ KeptExcept(old.current_version, new.current_version, WrittenKeys)
           /\ KeptExcept(old_previous, new.previous_version,
                         DOMAIN old.current_version)
           /\ KeptExcept(ReposOf(old_previous), ReposOf(new.previous_version),
                         DOMAIN ReposOf(old.current_version))

\* an update of a record with a first_version and a key of the user's, whose
\* current_version has a snapshot and whose previous_version has a note and a
\* remote that the current_version has not
C23_Witness ==
    /\ Saved
    /\ {"first_version", "name", "previous_version"} \subseteq DOMAIN call.old_info
    /\ "note" \in DOMAIN call.old_info.previous_version
    /\ "note" \notin DOMAIN call.old_info.current_version
    /\ DOMAIN ReposOf(call.old_info.current_version) = {"rA"}
    /\ DOMAIN ReposOf(call.old_info.previous_version) = {"rA", "rB"}
    /\ call.ret.current_version.hash = call.final_hash
    /\ call.ret.previous_version.hash = call.old_info.current_version.hash

\* the resolver has returned a list
PathsResolved == call.op = "paths" /\ call.done /\ call.ret.ok

\* the root-relative path each input entry resolves to, in input order
ResolvedEntries ==
    [i \in DOMAIN all_git_files_to_look(call.m) |->
        relpath(join(abs_location_root, all_git_files_to_look(call.m)[i]), abs_location_root)]

\* the place of the first occurrence of x in seq
FirstAt(seq, x) == CHOOSE i \in DOMAIN seq : seq[i] = x /\ \A j \in 1..(i - 1) : seq[j] # x

\* C24: the list the resolver returns holds exactly the paths the entries
\* resolve to, each once, in the order of their first occurrence among the
\* entries (locations, then git_only_files, then package action scripts).
C24_PathDeduplication ==
    PathsResolved =>
        /\ Range(call.ret.paths) = Range(ResolvedEntries)
        /\ \A i, j \in DOMAIN call.ret.paths :
               i < j => /\ call.ret.paths[i] # call.ret.paths[j]
                        /\ FirstAt(ResolvedEntries, call.ret.paths[i])
                               < FirstAt(ResolvedEntries, call.ret.paths[j])

\* four entries in three lists resolve to two paths: the entry of git_only_files
\* is spelled differently from the first location and resolves to the same path,
\* the package action script resolves to the path of the second location
C24_Witness ==
    /\ PathsResolved
    /\ Len(call.m.locations) = 2
    /\ Len(call.m.git_only_files) = 1
    /\ Len(call.m.package_actions) = 1
    /\ call.m.git_only_files[1] # call.m.locations[1]
    /\ call.m.package_actions[1] # call.m.locations[2]
    /\ ResolvedEntries[3] = ResolvedEntries[1]
    /\ ResolvedEntries[4] = ResolvedEntries[2]
    /\ call.ret.paths = <<ResolvedEntries[1], ResolvedEntries[2]>>
    /\ ResolvedEntries[1] # ResolvedEntries[2]

\* the scripts of the list that exit non-zero
Failing(scripts) == {k \in DOMAIN scripts : scripts[k] # 0}

\* the first of them
FirstFailing(scripts) == CHOOSE k \in Failing(scripts) : \A j \in Failing(scripts) : k <= j

\* the number of scripts _run_scripts has to start, and the code it has to return
MustStart(scripts) ==
    IF Failing(scripts) = {} THEN Len(scripts) ELSE FirstFailing(scripts)

MustReturn(scripts) ==
    IF Failing(scripts) = {} THEN 0 ELSE scripts[FirstFailing(scripts)]

\* C25: _run_scripts starts the scripts of its list in list order, each once,
\* up to and including the first that exits non-zero, whose exit code it
\* returns; when every script exits 0 it has started them all and returns 0.
C25_ScriptsInOrderUntilFailure ==
    (last # NoRun /\ last.result # Killed) =>
        \A i \in DOMAIN last.hooks :
            /\ Len(ScriptsRun(last.hooks[i].kind)) = MustStart(last.hooks[i].scripts)
            /\ \A j \in DOMAIN ScriptsRun(last.hooks[i].kind) :
                   /\ ScriptsRun(last.hooks[i].kind)[j].idx = j
                   /\ ScriptsRun(last.hooks[i].kind)[j].rc = last.hooks[i].scripts[j]
            /\ last.hooks[i].res = MustReturn(last.hooks[i].scripts)

\* a list of two scripts that would both fail: the first was started and exited
\* 2, the second was never started, and 2 is returned
C25_Witness ==
    /\ last # NoRun
    /\ last.result # Killed
    /\ Len(last.hooks) = 1
    /\ last.hooks[1].scripts = <<2, 1>>
    /\ Len(ScriptsRun(last.hooks[1].kind)) = 1
    /\ ScriptsRun(last.hooks[1].kind)[1].rc = 2
    /\ last.hooks[1].res = 2

\* parse_commits has been given the text of the records
Parsed == call.op = "parse" /\ call.done

\* txt contains the mark, txt ends with the mark's first three characters
Contains(txt, mark) == \E i \in DOMAIN txt : occurs_at(txt, mark, i)

EndsWithStart(txt, mark) ==
    Len(txt) >= 3 /\ SubSeq(txt, Len(txt) - 2, Len(txt)) = SubSeq(mark, 1, 3)

\* no field contains "_#._", and none of the first five contains "|$.|"
FieldsFreeOfMarks ==
    \A i \in DOMAIN call.records : \A f \in 1..6 :
        /\ ~Contains(call.records[i][f], CommitMark)
        /\ f <= 5 => ~Contains(call.records[i][f], FieldMark)

\* no field completes a mark with the mark that follows it: none of the first
\* five ends with "|$.", and no body that another record follows ends with "_#."
FieldsEndClear ==
    \A i \in DOMAIN call.records :
        /\ \A f \in 1..5 : ~EndsWithStart(call.records[i][f], FieldMark)
        /\ i < Len(call.records) => ~EndsWithStart(call.records[i][6], CommitMark)

\* the commits the records stand for: every field trimmed
TrimmedRecords == [i \in DOMAIN call.records |-> commit_of(call.records[i])]

\* C26 (as claimed): for a text of records whose fields contain no "_#._" and
\* whose first five fields contain no "|$.|", parse_commits returns one commit
\* per record, in order, with every field the trimmed original.
C26_ParseCommitsExact ==
    (Parsed /\ FieldsFreeOfMarks) =>
        call.ret.ok /\ call.ret.commits = TrimmedRecords

\* C26 (as amended): the same, for texts in which moreover none of the first
\* five fields ends with "|$." and no body followed by another record ends with
\* "_#."; a body containing "|$.|" is kept whole.
C26_ParseCommitsWellSeparated ==
    (Parsed /\ FieldsFreeOfMarks /\ FieldsEndClear) =>
        call.ret.ok /\ call.ret.commits = TrimmedRecords

\* two records parsed: the body of the first is "|$.|" and comes back whole,
\* the subject of the second comes back without the blanks around it
C26_Witness ==
    /\ Parsed
    /\ FieldsFreeOfMarks
    /\ FieldsEndClear
    /\ Len(call.records) = 2
    /\ call.records[1][6] = FieldMark
    /\ call.records[2][4] = <<" ", "x", " ">>
    /\ Len(call.ret.commits) = 2
    /\ call.ret.commits[1].body = FieldMark
    /\ call.ret.commits[2].subject = <<"x">>

\* the last invocation was given both install_check and update_check
BothChecks == last # NoRun /\ last.args.install_check /\ last.args.update_check

\* the times the last invocation dumped a record into the state-store file
StoreDumps ==
    {j \in DOMAIN last.fx : last.fx[j].op = "dump" /\ last.fx[j].kind = "store"}

\* C27: a run with both install_check and update_check never starts install
\* scripts and update scripts both; when it has installed the component it
\* starts no update script, does not update, and ends with the record the
\* install wrote: written once, first_version and current_version being the
\* computed version, without a previous_version.
C27_OneHookSequence ==
    BothChecks =>
        /\ ScriptsRun("install") = <<>> \/ ScriptsRun("update") = <<>>
        /\ (last.is_just_installed /\ last.result # Killed) =>
               /\ ~last.is_just_updated
               /\ ScriptsRun("update") = <<>>
               /\ Cardinality(StoreDumps) = 1
               /\ store.kind = "record"
               /\ store.info.current_version.hash = last.final_hash
               /\ store.info.first_version = store.info.current_version
               /\ "previous_version" \notin DOMAIN store.info

\* a run with both checks that installed the component with two scripts
C27_Witness ==
    /\ BothChecks
    /\ last.is_just_installed
    /\ last.result # Killed
    /\ Len(ScriptsRun("install")) = 2
    /\ store.kind = "record"
    /\ last.pre.store.kind = "nofile"

\* the last invocation found the component unseen (kind "install") or changed
\* (kind "update") and the hook list of that kind empty or missing
EmptyHookList(kind) ==
    /\ last # NoRun
    /\ \E i \in DOMAIN last.hooks :
           last.hooks[i].kind = kind /\ last.hooks[i].scripts = <<>>

\* C28: a run that finds the component unseen and no install script, or
\* changed and no update script, writes nothing to the state-store file and
\* nothing to the changelog file: both are as the run found them, so the
\* component is still unseen, or still changed with its old current_version,
\* for the next run.
C28_EmptyHookListKeepsState ==
    (EmptyHookList("install") \/ EmptyHookList("update")) =>
        /\ ~StoreWritten
        /\ store = last.pre.store
        /\ store_changelog = last.pre.changelog
        /\ ~last.is_just_installed /\ ~last.is_just_updated
        /\ EmptyHookList("install") => load_installation_info(store) = NoInfo
        /\ EmptyHookList("update") =>
               /\ store.kind = "record"
               /\ store.info.current_version.hash # last.final_hash

\* a run asked for update and changelog finds a record of another version and
\* no update script, after an earlier run has installed the component
C28_Witness ==
    /\ EmptyHookList("update")
    /\ last.args.update_check
    /\ last.args.changelog
    /\ last.result = ExitWith(0)
    /\ store.kind = "record"
    /\ store.info.current_version.hash # last.final_hash
    /\ now > 0

\* C29: in the changelog file that gen_simple_changelog keeps, starting from
\* no file, no two neighbouring entries of the history have the same
\* final_hash.
C29_AdjacentEntriesDiffer ==
    \A i \in 1..(Len(changelog_file.history) - 1) :
        changelog_file.history[i].final_hash # changelog_file.history[i + 1].final_hash

\* the second run found the entry of the first, a commit having been pushed in
\* between, and put its own in front of it
C29_Witness ==
    /\ EntryWritten
    /\ Len(HistoryBefore) = 1
    /\ Len(changelog_file.history) = 2
    /\ changelog_file.history[2] = HistoryBefore[1]
    /\ changelog_file.history[1].final_hash # HistoryBefore[1].final_hash

====
